---- MODULE Spec2Model ----
(***************************************************************************)
(* A model of sem_safe: the once-gate (InitOnce), the two non-named        *)
(* semaphore containers (unnamed::Semaphore, anonymous::Semaphore), the    *)
(* operations through a SemaphoreRef, the teardown, and the named          *)
(* semaphores (named::Semaphore) over the host's names.                    *)
(*                                                                         *)
(* Spec is the initialization protocol with the whole life of a container, *)
(* SpecTry the initializing calls with every limit of try_init_with,       *)
(* SpecOps the operations on a container that is ready, up to its          *)
(* teardown, SpecOrder post and wait next to another object in memory,     *)
(* and SpecLive waits and posts under fair scheduling of blocked threads.  *)
(* SpecNamed is open, unlink and the operations through named handles,     *)
(* SpecRefs the comparison of references, and SpecAnon anonymous_with      *)
(* among other processes that create and unlink names.  SpecOwn is         *)
(* anonymous_with among other openers, SpecClose close and the use of a    *)
(* handle after it, SpecLose init_with calls that lose the gate, SpecSet   *)
(* the replacement of a container in place, and SpecShow display().        *)
(*                                                                         *)
(* Concurrency: every atomic access of the source is one step of one       *)
(* thread.  The gate word is a single atomic location, so its accesses     *)
(* are totally ordered.  The memory the gate guards (the sem_t storage,    *)
(* the anonymous handle slot, the test's THING) is modelled with           *)
(* per-thread views: a thread may read any write at or after its view; a   *)
(* Release store publishes the writer's view with the stored value and an  *)
(* Acquire load that reads it raises the reader's view to it.              *)
(***************************************************************************)
EXTENDS Integers, Sequences, FiniteSets, TLC

\* ---------------------------------------------------------------- bounds
NThreads == 2
SemValueMax == 2
MaxLimit == 2
MaxSets == 1
MaxPosts == 2
MaxWaits == 3
NNames == 2
MaxSems == 2
MaxHandles == 2
MaxOpens == 2

Threads == 1..NThreads
\* start counts a caller may pass: SemValueMax + 1 stands for a value above
\* SEM_VALUE_MAX (c_uint::MAX in tests/usage/non_named.rs)
Counts == 0..(SemValueMax + 1)
Limits == 0..MaxLimit
Names == 1..NNames
Sems == 1..MaxSems
Ptrs == 1..MaxHandles

\* ------------------------------------------------------- gate constants
UNINITIALIZED == 0
PREPARING == 1
READY == 2

\* --------------------------------------------- anonymous_with's budget
TRY_LIMIT == 10

VARIABLES
    kind,    \* which type the gate sits in: "once", "unnamed", "anonymous"
    alive,   \* the container value exists (not yet dropped)
    sets,    \* how many times the container was replaced in place
    state,   \* the gate's atomic word: [val, rel]; rel = the view published with val
    mem,     \* history of writes to the guarded memory; mem[1] is the initial content
    view,    \* view[t]: the oldest write of mem thread t may still read
    pc,      \* pc[t]: where thread t is inside its current call
    call,    \* call[t]: the call thread t is in, with its arguments
    held,    \* held[t]: thread t holds a SemaphoreRef borrowed from the container
    os,      \* the OS semaphore object behind the container
    log,     \* history of the current container: CAS wins, runs of the init work, ...
    drop,    \* what the last teardown found and did
    ev,      \* the call return the last step performed (NoEv for an inner step)
    another, \* another object in memory (ANOTHER_OBJECT of tests/usage): [hist, view, rel]
    tally,   \* what the callers of the operations count of their calls' returns
    sys,     \* the host's named semaphores: [names, sems]; names[n] = 0 for no such name
    handles, \* the named::Semaphore values that exist: [obj, ptr]
    frame    \* frame[t]: where thread t is inside its call of the named layer

vars == <<kind, alive, sets, state, mem, view, pc, call, held, os, log, drop, ev,
          another, tally, sys, handles, frame>>

Max(a, b) == IF a >= b THEN a ELSE b
Sat(n) == IF n >= 2 THEN 2 ELSE n + 1

\* ------------------------------------------------ atomics (the gate word)
NewCell == [val |-> UNINITIALIZED, rel |-> 1]

\* compare_exchange(expected, new, Relaxed, Relaxed): a read-modify-write; it
\* publishes nothing of its own and keeps what the value it replaces published.
CompareExchangeOk(cell, expected) == cell.val = expected
CompareExchange(cell, expected, new) ==
    IF CompareExchangeOk(cell, expected) THEN [val |-> new, rel |-> cell.rel] ELSE cell

\* store(val, Release) by a thread whose view is v
StoreRelaxed(cell, val, v) == [val |-> val, rel |-> 1]
StoreRelease(cell, val, v) == [val |-> val, rel |-> v]

\* load(Acquire) by a thread whose view is v: the view after the load
LoadRelaxedView(cell, v) == v
LoadAcquireView(cell, v) == Max(v, cell.rel)

\* ------------------------------------------------------------- InitOnce
\* call_once: does this call win the compare_exchange?
CallOnceWinsUnlessReady(cell) == cell.val # READY
CallOnceWins(cell) == CompareExchangeOk(cell, UNINITIALIZED)

CallOnceCAS(cell) == CompareExchange(cell, UNINITIALIZED, PREPARING)

\* call_once after f() returned: READY is stored only if r.is_ok()
CallOnceCommitAlways(cell, rOk, v) == StoreRelease(cell, READY, v)
CallOnceCommitRelaxed(cell, rOk, v) == IF rOk THEN StoreRelaxed(cell, READY, v) ELSE cell
CallOnceCommitReset(cell, rOk, v) ==
    IF rOk THEN StoreRelease(cell, READY, v) ELSE StoreRelaxed(cell, UNINITIALIZED, v)
CallOnceCommit(cell, rOk, v) == IF rOk THEN StoreRelease(cell, READY, v) ELSE cell

\* is_ready
IsReady(cell) == cell.val = READY
IsReadyViewRelaxed(cell, v) == LoadRelaxedView(cell, v)
IsReadyView(cell, v) == LoadAcquireView(cell, v)

\* --------------------------------------------------- unnamed::Semaphore
\* init_with: the compare_exchange on self.state
InitWithWinsUnlessReady(cell) == cell.val # READY
InitWithWins(cell) == CompareExchangeOk(cell, UNINITIALIZED)
InitWithCASLoadOnly(cell) == cell
InitWithCAS(cell) == CompareExchange(cell, UNINITIALIZED, PREPARING)

\* init_with after sem_init returned r: READY is stored only if r == 0
InitWithCommitAlways(cell, r, v) == StoreRelease(cell, READY, v)
InitWithCommitRelaxed(cell, r, v) == IF r = 0 THEN StoreRelaxed(cell, READY, v) ELSE cell
InitWithCommitReset(cell, r, v) ==
    IF r = 0 THEN StoreRelease(cell, READY, v) ELSE StoreRelaxed(cell, UNINITIALIZED, v)
InitWithCommit(cell, r, v) == IF r = 0 THEN StoreRelease(cell, READY, v) ELSE cell

\* ready_ref: Some iff the Acquire load of self.state reads READY
ReadyRefUnlessUninit(cell) == cell.val # UNINITIALIZED
ReadyRefNever(cell) == FALSE
ReadyRef(cell) == READY = cell.val
ReadyRefViewRelaxed(cell, v) == LoadRelaxedView(cell, v)
ReadyRefView(cell, v) == LoadAcquireView(cell, v)

\* ------------------------------------------------- the OS semaphore service
\* sem_init(sem, pshared, value): 0, or -1 (EINVAL when value > SEM_VALUE_MAX;
\* ENOSPC, EPERM when the host refuses: hostOk = FALSE)
SemInit(sem_count, hostOk) == IF hostOk /\ sem_count <= SemValueMax THEN 0 ELSE -1

\* named::Semaphore::anonymous_with(sem_count): Ok iff one of its exclusive
\* creates succeeds; none can when sem_count > SEM_VALUE_MAX or the host refuses
AnonymousWithOk(sem_count, hostOk) == hostOk /\ sem_count <= SemValueMax

\* ------------------------------------------------------------ initial
NoCall == [op |-> "none", is_shared |-> FALSE, sem_count |-> 0, limit |-> 0]
NoEv == [t |-> 0, op |-> "none", val |-> "none", errno |-> "none", num |-> 0,
         name |-> 0, flags |-> "none", ptr |-> 0]
NoOs == [live |-> FALSE, count |-> 0, shared |-> FALSE]
NewLog == [wins |-> 0, runs |-> 0, somes |-> 0, oks |-> 0,
           winner |-> 0, failed |-> FALSE, badOp |-> FALSE]
NoDrop == [done |-> FALSE, gate |-> UNINITIALIZED, wasLive |-> FALSE, destroys |-> 0]

\* a return: of call op by thread t with value val; errno where the call sets
\* it, num where the call gives a number
Ev(t, op, val) == [NoEv EXCEPT !.t = t, !.op = op, !.val = val]
EvErrno(t, op, errno) == [Ev(t, op, "Err") EXCEPT !.errno = errno]
EvNum(t, op, num) == [Ev(t, op, "Ok") EXCEPT !.num = num]

\* ANOTHER_OBJECT = AtomicI32::new(1), in every thread's view
NewAnother == [hist |-> <<1>>, view |-> [t \in Threads |-> 1], rel |-> 1]
NoTry == [given |-> 0, polls |-> 0, gate |-> UNINITIALIZED]
NoTally == [start |-> 0, posts |-> 0, waits |-> 0, got |-> {}, own |-> FALSE,
            writer |-> 0, early |-> FALSE, tries |-> [t \in Threads |-> NoTry],
            calls |-> 0, woke |-> FALSE,
            stage |-> 0, twice |-> FALSE, crossed |-> FALSE, probed |-> FALSE,
            anon |-> {},
            insts |-> [p \in Ptrs |-> 0], bad |-> {}, platform |-> "unknown",
            loose |-> FALSE, wild |-> FALSE]

\* no named semaphore exists on the host, and the program has opened none
NoSem == [live |-> FALSE, count |-> 0, mode |-> "none"]
NoSys == [names |-> [n \in Names |-> 0], sems |-> [i \in Sems |-> NoSem]]
NoFrame == [pc |-> "idle", tries |-> 0, name |-> 0, sem_count |-> 0, ptr |-> 0]
NoNamed ==
    /\ sys = NoSys
    /\ handles = {}
    /\ frame = [t \in Threads |-> NoFrame]

InitCommon ==
    /\ alive = TRUE
    /\ sets = 0
    /\ state = NewCell
    /\ mem = <<0>>
    /\ view = [t \in Threads |-> 1]
    /\ pc = [t \in Threads |-> "idle"]
    /\ call = [t \in Threads |-> NoCall]
    /\ held = [t \in Threads |-> FALSE]
    /\ os = NoOs
    /\ log = NewLog
    /\ drop = NoDrop
    /\ ev = NoEv
    /\ another = NewAnother
    /\ tally = NoTally
    /\ NoNamed

Init == kind \in {"once", "unnamed", "anonymous"} /\ InitCommon

\* ------------------------------------------------- InitOnce on its own
\* The gate as its unit tests use it: call_once(f) where f writes THING and
\* returns Ok or Err, is_ready(), and a Relaxed load of THING.

\* call_once, up to the compare_exchange
CallOnce(t) ==
    /\ kind = "once"
    /\ pc[t] = "idle"
    /\ IF CallOnceWins(state)
       THEN /\ state' = CallOnceCAS(state)
            /\ pc' = [pc EXCEPT ![t] = "f"]
            /\ call' = [call EXCEPT ![t] = [NoCall EXCEPT !.op = "call_once"]]
            /\ log' = [log EXCEPT !.wins = Sat(@), !.winner = t]
            /\ ev' = NoEv
       ELSE /\ ev' = Ev(t, "call_once", "None")
            /\ UNCHANGED <<state, pc, call, log>>
    /\ UNCHANGED <<sys, handles, frame, kind, alive, sets, mem, view, held, os, drop>>
    /\ UNCHANGED <<another, tally>>

\* f(): THING.store(1, Relaxed), then Ok or Err
RunF(t, rOk) ==
    /\ kind = "once"
    /\ pc[t] = "f"
    /\ mem' = Append(mem, 1)
    /\ view' = [view EXCEPT ![t] = Len(mem) + 1]
    /\ pc' = [pc EXCEPT ![t] = IF rOk THEN "commit_ok" ELSE "commit_err"]
    /\ log' = [log EXCEPT !.runs = Sat(@)]
    /\ ev' = NoEv
    /\ UNCHANGED <<sys, handles, frame, kind, alive, sets, state, call, held, os, drop>>
    /\ UNCHANGED <<another, tally>>

\* call_once after f(): the Release store if r.is_ok(), then Some(r)
CommitOnce(t) ==
    /\ kind = "once"
    /\ pc[t] \in {"commit_ok", "commit_err"}
    /\ state' = CallOnceCommit(state, pc[t] = "commit_ok", view[t])
    /\ ev' = Ev(t, "call_once", IF pc[t] = "commit_ok" THEN "SomeOk" ELSE "SomeErr")
    /\ log' = [log EXCEPT !.somes = Sat(@), !.failed = (pc[t] = "commit_err")]
    /\ pc' = [pc EXCEPT ![t] = "idle"]
    /\ call' = [call EXCEPT ![t] = NoCall]
    /\ UNCHANGED <<sys, handles, frame, kind, alive, sets, mem, view, held, os, drop>>
    /\ UNCHANGED <<another, tally>>

\* is_ready(): the Acquire load; a true answer lets the caller go on to THING
IsReadyCall(t) ==
    /\ kind = "once"
    /\ pc[t] = "idle"
    /\ IF IsReady(state)
       THEN /\ view' = [view EXCEPT ![t] = IsReadyView(state, @)]
            /\ pc' = [pc EXCEPT ![t] = "load_thing"]
            /\ ev' = Ev(t, "is_ready", "true")
       ELSE /\ ev' = Ev(t, "is_ready", "false")
            /\ UNCHANGED <<view, pc>>
    /\ UNCHANGED <<sys, handles, frame, kind, alive, sets, state, mem, call, held, os, log, drop>>
    /\ UNCHANGED <<another, tally>>

\* THING.load(Relaxed) after is_ready() returned true (tests::synchronizes)
ReadThing(t) ==
    /\ kind = "once"
    /\ pc[t] = "load_thing"
    /\ \E i \in view[t]..Len(mem) :
          /\ ev' = Ev(t, "load", IF mem[i] = 1 THEN "1" ELSE "0")
          /\ view' = [view EXCEPT ![t] = i]
    /\ pc' = [pc EXCEPT ![t] = "idle"]
    /\ UNCHANGED <<sys, handles, frame, kind, alive, sets, state, mem, call, held, os, log, drop>>
    /\ UNCHANGED <<another, tally>>

NextOnce ==
    \E t \in Threads :
        \/ CallOnce(t)
        \/ \E rOk \in BOOLEAN : RunF(t, rOk)
        \/ CommitOnce(t)
        \/ IsReadyCall(t)
        \/ ReadThing(t)

\* ------------------------------------------- the non-named containers
\* unnamed::Semaphore (the gate is its own AtomicU8, the guarded memory is the
\* sem_t storage) and anonymous::Semaphore (the gate is an InitOnce, the
\* guarded memory is the Option<named::Semaphore> slot).

Container == kind \in {"unnamed", "anonymous"}

\* the container's compare_exchange, by type
GateWins(k, cell) == IF k = "unnamed" THEN InitWithWins(cell) ELSE CallOnceWins(cell)
GateCAS(k, cell) == IF k = "unnamed" THEN InitWithCAS(cell) ELSE CallOnceCAS(cell)

\* a call whose is_shared and sem_count are of no further use to it
Used(c) == [c EXCEPT !.is_shared = FALSE, !.sem_count = 0]

\* init_with returned val inside thread t's call c: the call returns it, or
\* try_init_with goes on from it
Finish(t, c, val) ==
    IF c.op = "try_init_with" /\ val = "ErrTrue"
    THEN /\ pc' = [pc EXCEPT ![t] = "poll"]
         /\ call' = [call EXCEPT ![t] = Used(c)]
         /\ ev' = NoEv
         /\ held' = held
    ELSE /\ pc' = [pc EXCEPT ![t] = "idle"]
         /\ call' = [call EXCEPT ![t] = NoCall]
         /\ held' = [held EXCEPT ![t] = @ \/ val = "Ok"]
         /\ ev' = Ev(t, c.op,
                     IF c.op = "init_with" \/ val = "PanicExpect" THEN val
                     ELSE IF val = "Ok" THEN "Some" ELSE "None")

\* anonymous::Semaphore::init_with asserts !is_shared before anything else
AssertNotSharedOff(k, is_shared) == TRUE
AssertNotShared(k, is_shared) == k = "unnamed" \/ ~is_shared

\* init_with / try_init_with (init and try_init are the calls with
\* is_shared = false, sem_count = 0), up to the compare_exchange
Begin(t, op, is_shared, sem_count, limit) ==
    /\ Container /\ alive
    /\ pc[t] = "idle"
    /\ LET c == [op |-> op, is_shared |-> is_shared, sem_count |-> sem_count,
                 limit |-> limit] IN
       IF ~AssertNotShared(kind, is_shared)
       THEN /\ ev' = Ev(t, op, "Panic")
            /\ UNCHANGED <<state, pc, call, held, log>>
       ELSE IF GateWins(kind, state)
       THEN /\ state' = GateCAS(kind, state)
            /\ pc' = [pc EXCEPT ![t] = "os_init"]
            /\ call' = [call EXCEPT ![t] = c]
            /\ log' = [log EXCEPT !.wins = Sat(@), !.winner = t]
            /\ ev' = NoEv
            /\ held' = held
       ELSE /\ Finish(t, c, "ErrTrue")
            /\ UNCHANGED <<state, log>>
    /\ UNCHANGED <<sys, handles, frame, kind, alive, sets, mem, view, os, drop>>
    /\ UNCHANGED another

\* the winner's initialization work: sem_init on the storage (unnamed), or the
\* closure given to call_once: anonymous_with, then the write of Some(sem) to
\* the slot (anonymous)
OsInit(t, hostOk) ==
    /\ Container
    /\ pc[t] = "os_init"
    /\ LET ok == IF kind = "unnamed" THEN SemInit(call[t].sem_count, hostOk) = 0
                 ELSE AnonymousWithOk(call[t].sem_count, hostOk) IN
       /\ IF ok
          THEN /\ mem' = Append(mem, 1)
               /\ view' = [view EXCEPT ![t] = Len(mem) + 1]
               /\ os' = [live |-> TRUE, count |-> call[t].sem_count,
                         shared |-> call[t].is_shared]
          ELSE UNCHANGED <<mem, view, os>>
       /\ pc' = [pc EXCEPT ![t] = IF ok THEN "commit_ok" ELSE "commit_err"]
    /\ call' = [call EXCEPT ![t] = Used(@)]
    /\ log' = [log EXCEPT !.runs = Sat(@)]
    /\ ev' = NoEv
    /\ UNCHANGED <<sys, handles, frame, kind, alive, sets, state, held, drop>>
    /\ UNCHANGED <<another, tally>>

\* after the work: the Release store of READY on success (then on to
\* self.sem_ref()), Err(false) on failure
Commit(t) ==
    /\ Container
    /\ pc[t] \in {"commit_ok", "commit_err"}
    /\ state' = IF kind = "unnamed"
                THEN InitWithCommit(state, IF pc[t] = "commit_ok" THEN 0 ELSE -1, view[t])
                ELSE CallOnceCommit(state, pc[t] = "commit_ok", view[t])
    /\ IF pc[t] = "commit_ok"
       THEN /\ pc' = [pc EXCEPT ![t] = "self_ref"]
            /\ ev' = NoEv
            /\ log' = [log EXCEPT !.somes = Sat(@)]
            /\ UNCHANGED <<call, held>>
       ELSE /\ Finish(t, call[t], "ErrFalse")
            /\ log' = [log EXCEPT !.somes = Sat(@), !.failed = TRUE]
    /\ UNCHANGED <<sys, handles, frame, kind, alive, sets, mem, view, os, drop>>
    /\ UNCHANGED <<another, tally>>

\* sem_ref by thread t answers res: "Ok" (a SemaphoreRef), "Err", or
\* "PanicExpect" (anonymous: the slot read after is_ready() is None, and
\* expect("always `Some` once initialized") fails)
DoSemRef(t, res) ==
    IF kind = "unnamed"
    THEN /\ res = IF ReadyRef(state) THEN "Ok" ELSE "Err"
         /\ view' = [view EXCEPT ![t] = IF ReadyRef(state) THEN ReadyRefView(state, @) ELSE @]
    ELSE IF IsReady(state)
         THEN \E i \in IsReadyView(state, view[t])..Len(mem) :
                 /\ res = IF mem[i] = 1 THEN "Ok" ELSE "PanicExpect"
                 /\ view' = [view EXCEPT ![t] = i]
         ELSE res = "Err" /\ view' = view

\* Ok(self.sem_ref().expect("the `Semaphore` is ready")) at the end of init_with
SelfRef(t) ==
    /\ Container
    /\ pc[t] = "self_ref"
    /\ \E res \in {"Ok", "Err", "PanicExpect"} :
          /\ DoSemRef(t, res)
          /\ Finish(t, call[t], IF res = "Ok" THEN "Ok" ELSE "PanicExpect")
          /\ log' = [log EXCEPT !.oks = IF res = "Ok" THEN Sat(@) ELSE @]
    /\ UNCHANGED <<sys, handles, frame, kind, alive, sets, state, mem, os, drop>>
    /\ UNCHANGED <<another, tally>>

\* sem_ref
SemRef(t) ==
    /\ Container /\ alive
    /\ pc[t] = "idle"
    /\ \E res \in {"Ok", "Err", "PanicExpect"} :
          /\ DoSemRef(t, res)
          /\ ev' = Ev(t, "sem_ref", res)
          /\ held' = [held EXCEPT ![t] = @ \/ res = "Ok"]
    /\ UNCHANGED <<sys, handles, frame, kind, alive, sets, state, mem, pc, call, os, log, drop>>
    /\ UNCHANGED <<another, tally>>

\* limit.saturating_sub(1)
SaturatingSubNothing(a, b) == a
SaturatingSub(a, b) == Max(a - b, 0)

\* one turn of try_init_with's loop after init_with returned Err(true)
Poll(t) ==
    /\ Container
    /\ pc[t] = "poll"
    /\ \E res \in {"Ok", "Err", "PanicExpect"} :
          /\ DoSemRef(t, res)
          /\ LET limit == SaturatingSub(call[t].limit, 1) IN
             IF res = "Err" /\ limit # 0
             THEN /\ call' = [call EXCEPT ![t].limit = limit]
                  /\ ev' = NoEv
                  /\ UNCHANGED <<pc, held>>
             ELSE /\ pc' = [pc EXCEPT ![t] = "idle"]
                  /\ call' = [call EXCEPT ![t] = NoCall]
                  /\ held' = [held EXCEPT ![t] = @ \/ res = "Ok"]
                  /\ ev' = Ev(t, "try_init_with",
                              IF res = "Ok" THEN "Some"
                              ELSE IF res = "Err" THEN "None" ELSE "PanicExpect")
    /\ UNCHANGED <<sys, handles, frame, kind, alive, sets, state, mem, os, log, drop>>
    /\ UNCHANGED another

\* an operation through a SemaphoreRef reaches an object that is not an
\* initialized semaphore: the OS object does not exist, or (unnamed) the
\* thread may still read the storage as it was before sem_init
OnUninit(t) ==
    \/ ~os.live
    \/ kind = "unnamed" /\ \E i \in view[t]..Len(mem) : mem[i] = 0

\* sem_post(sem): 0 and the count one higher, or -1 with EOVERFLOW when the
\* count is SEM_VALUE_MAX already
SemPostOkAlways(o) == o.live
SemPostOk(o) == o.live /\ o.count < SemValueMax
SemPostedNothing(o) == o
SemPosted(o) == [o EXCEPT !.count = @ + 1]

\* sem_wait(sem), sem_trywait(sem): the semaphore can be locked iff its count
\* is above zero, and locking it takes one from the count
SemLockableAlways(o) == o.live
SemLockable(o) == o.live /\ o.count > 0
SemLockedNothing(o) == o
SemLocked(o) == [o EXCEPT !.count = @ - 1]

\* sem_getvalue(sem, &sval): the count; for a locked semaphore zero, or the
\* negative of the number of threads waiting on it
SemGetValue(o, waiters) == IF o.count > 0 THEN {o.count} ELSE {0, 0 - waiters}

\* Memory synchronization of the successful calls: what thread t wrote or saw
\* before its sem_post is published with the semaphore, and a thread returning
\* from sem_wait or sem_trywait has in view what was published.
Published(a, t) == [a EXCEPT !.rel = Max(@, a.view[t])]
AcquiredNothing(a, t) == a
Acquired(a, t) == [a EXCEPT !.view[t] = Max(@, a.rel)]

\* "If this returns an error, it is unspecified whether the invocation causes
\* memory to be synchronized."
Unspecified(a, synced) == {a, synced}

\* SemaphoreRef::post
Post(t) ==
    /\ Container
    /\ pc[t] = "idle" /\ held[t]
    /\ IF SemPostOk(os)
       THEN /\ os' = SemPosted(os)
            /\ ev' = Ev(t, "post", "Ok")
            /\ another' = Published(another, t)
       ELSE /\ os' = os
            /\ ev' = EvErrno(t, "post", IF os.live THEN "EOVERFLOW" ELSE "EINVAL")
            /\ another' \in Unspecified(another, Published(another, t))
    /\ log' = [log EXCEPT !.badOp = @ \/ OnUninit(t)]
    /\ UNCHANGED <<sys, handles, frame, kind, alive, sets, state, mem, view, pc, call, held, drop>>

\* SemaphoreRef::try_wait
TryWait(t) ==
    /\ Container
    /\ pc[t] = "idle" /\ held[t]
    /\ IF SemLockable(os)
       THEN /\ os' = SemLocked(os)
            /\ ev' = Ev(t, "try_wait", "Ok")
            /\ another' = Acquired(another, t)
       ELSE /\ os' = os
            /\ ev' = EvErrno(t, "try_wait", IF os.live THEN "EAGAIN" ELSE "EINVAL")
            /\ another' \in Unspecified(another, Acquired(another, t))
    /\ log' = [log EXCEPT !.badOp = @ \/ OnUninit(t)]
    /\ UNCHANGED <<sys, handles, frame, kind, alive, sets, state, mem, view, pc, call, held, drop>>

\* SemaphoreRef::wait: returns at once when the semaphore can be locked, and
\* blocks inside sem_wait otherwise
Wait(t) ==
    /\ Container
    /\ pc[t] = "idle" /\ held[t]
    /\ IF SemLockable(os)
       THEN /\ os' = SemLocked(os)
            /\ ev' = Ev(t, "wait", "Ok")
            /\ another' = Acquired(another, t)
            /\ pc' = pc
       ELSE /\ pc' = [pc EXCEPT ![t] = "wait"]
            /\ ev' = NoEv
            /\ UNCHANGED <<os, another>>
    /\ log' = [log EXCEPT !.badOp = @ \/ OnUninit(t)]
    /\ UNCHANGED <<sys, handles, frame, kind, alive, sets, state, mem, view, call, held, drop>>

\* a thread blocked in sem_wait locks the semaphore and returns 0
Wake(t) ==
    /\ Container
    /\ pc[t] = "wait"
    /\ SemLockable(os)
    /\ os' = SemLocked(os)
    /\ ev' = Ev(t, "wait", "Ok")
    /\ another' = Acquired(another, t)
    /\ pc' = [pc EXCEPT ![t] = "idle"]
    /\ UNCHANGED <<sys, handles, frame, kind, alive, sets, state, mem, view, call, held, log, drop>>

\* a signal interrupts a thread blocked in sem_wait: -1 with EINTR
Interrupt(t) ==
    /\ Container
    /\ pc[t] = "wait"
    /\ ev' = EvErrno(t, "wait", "EINTR")
    /\ another' \in Unspecified(another, Acquired(another, t))
    /\ pc' = [pc EXCEPT ![t] = "idle"]
    /\ UNCHANGED <<sys, handles, frame, kind, alive, sets, state, mem, view, call, held, os, log, drop>>
    /\ UNCHANGED tally

Waiters == Cardinality({u \in Threads : pc[u] = "wait"})

\* SemaphoreRef::get_value
GetValue(t) ==
    /\ Container
    /\ pc[t] = "idle" /\ held[t]
    /\ \E sval \in SemGetValue(os, Waiters) : ev' = EvNum(t, "get_value", sval)
    /\ log' = [log EXCEPT !.badOp = @ \/ OnUninit(t)]
    /\ UNCHANGED <<sys, handles, frame, kind, alive, sets, state, mem, view, pc, call, held, os, drop>>
    /\ UNCHANGED <<another, tally>>

\* ANOTHER_OBJECT.store(2, Relaxed), done once
StoreAnother(t) ==
    /\ Container
    /\ pc[t] = "idle"
    /\ Len(another.hist) = 1
    /\ another' = [another EXCEPT !.hist = Append(@, 2),
                                   !.view[t] = Len(another.hist) + 1]
    /\ ev' = NoEv
    /\ tally' = [tally EXCEPT !.writer = t]
    /\ UNCHANGED <<sys, handles, frame, kind, alive, sets, state, mem, view, pc, call, held, os, log, drop>>

\* ANOTHER_OBJECT.load(Relaxed)
LoadAnother(t) ==
    /\ Container
    /\ pc[t] = "idle"
    /\ \E i \in another.view[t]..Len(another.hist) :
          /\ ev' = EvNum(t, "load_another", another.hist[i])
          /\ another' = [another EXCEPT !.view[t] = i]
    /\ UNCHANGED <<sys, handles, frame, kind, alive, sets, state, mem, view, pc, call, held, os, log, drop>>
    /\ UNCHANGED tally

\* the step returns Ok from one of the operations ops
ReturnsOk(ops) == ev'.op \in ops /\ ev'.val = "Ok"

\* The callers' count of the step's return: successful posts, successful
\* waits (wait and try_wait), and whether the return is of a successful wait
\* by the thread whose successful post was the return before it
Counted(ta) ==
    [ta EXCEPT !.posts = IF ReturnsOk({"post"}) THEN @ + 1 ELSE @,
               !.waits = IF ReturnsOk({"wait", "try_wait"}) THEN @ + 1 ELSE @,
               !.own = ReturnsOk({"wait"}) /\ ev = Ev(ev'.t, "post", "Ok")]

\* The callers' record of the order of things: who got a successful wait, and
\* whether a post was made by a thread that has not the store of 2 in its view
Ordered(ta) ==
    [ta EXCEPT !.got = IF ReturnsOk({"wait", "try_wait"}) THEN @ \cup {ev'.t} ELSE @,
               !.early = @ \/ (ReturnsOk({"post"}) /\ another.hist[another.view[ev'.t]] # 2)]

\* The callers' count of their calls of wait: a call is counted in the step
\* that enters it (it returns in that step, or blocks in it), and woke says
\* that the step is the successful return of a wait that was blocked
Enters(t) == pc[t] = "idle" /\ (pc'[t] = "wait" \/ ev' = Ev(t, "wait", "Ok"))
Entered(ta) ==
    [ta EXCEPT !.calls = IF \E t \in Threads : Enters(t) THEN @ + 1 ELSE @,
               !.woke = ReturnsOk({"wait"}) /\ pc[ev'.t] = "wait"]

\* the thread's SemaphoreRefs go out of scope
ReleaseRef(t) ==
    /\ Container
    /\ pc[t] = "idle" /\ held[t]
    /\ held' = [held EXCEPT ![t] = FALSE]
    /\ ev' = NoEv
    /\ UNCHANGED <<sys, handles, frame, kind, alive, sets, state, mem, view, pc, call, os, log, drop>>
    /\ UNCHANGED <<another, tally>>

\* ----------------------------------------------------------- teardown
\* unnamed: pinned_drop calls sem_destroy iff ready_ref() is Some
PinnedDropDestroysAlways(cell) == TRUE
PinnedDropDestroysStarted(cell) == cell.val # UNINITIALIZED
PinnedDropDestroys(cell) == ReadyRef(cell)

\* anonymous: drop calls close iff the slot holds Some
DropCloses(inner) == inner = 1

\* A value is dropped only when nothing borrows it: no call is running on it
\* and no SemaphoreRef is alive.
UnborrowedIdle == \A t \in Threads : pc[t] = "idle"
Unborrowed == \A t \in Threads : pc[t] = "idle" /\ ~held[t]

DropDestroys ==
    IF kind = "unnamed" THEN PinnedDropDestroys(state) ELSE DropCloses(mem[Len(mem)])

Dropped == [done |-> TRUE, gate |-> state.val, wasLive |-> os.live,
            destroys |-> IF DropDestroys THEN 1 ELSE 0]

\* the container goes out of scope
Drop ==
    /\ Container /\ alive
    /\ Unborrowed
    /\ alive' = FALSE
    /\ drop' = Dropped
    /\ os' = IF DropDestroys THEN NoOs ELSE os
    /\ ev' = Ev(0, "drop", "done")
    /\ UNCHANGED <<sys, handles, frame, kind, sets, state, mem, view, pc, call, held, log>>
    /\ UNCHANGED <<another, tally>>

\* sem.set(Semaphore::uninit()): the old value is dropped and a fresh one
\* takes its place
Set ==
    /\ Container /\ alive
    /\ Unborrowed
    /\ sets < MaxSets
    /\ sets' = sets + 1
    /\ drop' = Dropped
    /\ state' = NewCell
    /\ mem' = <<0>>
    /\ view' = [t \in Threads |-> 1]
    /\ os' = NoOs
    /\ log' = NewLog
    /\ ev' = Ev(0, "set", "done")
    /\ UNCHANGED <<sys, handles, frame, kind, alive, pc, call, held>>
    /\ UNCHANGED <<another, tally>>

\* sem_count is read by the winner's OS initialization alone, is_shared by it
\* and by the anonymous assert, and limit by a loser's polling alone: where a
\* call does not read its argument, one value stands for all of them
CountsRead == IF GateWins(kind, state) THEN Counts ELSE {0}
SharedRead == IF GateWins(kind, state) \/ kind = "anonymous" THEN BOOLEAN ELSE {FALSE}
LimitsRead == IF GateWins(kind, state) THEN {0} ELSE Limits

Next ==
    \/ NextOnce
    \/ \E t \in Threads :
          \/ \E is_shared \in SharedRead, sem_count \in CountsRead :
                Begin(t, "init_with", is_shared, sem_count, 0) /\ UNCHANGED tally
          \/ \E is_shared \in SharedRead, sem_count \in CountsRead, limit \in LimitsRead :
                Begin(t, "try_init_with", is_shared, sem_count, limit) /\ UNCHANGED tally
          \/ \E hostOk \in BOOLEAN : OsInit(t, hostOk)
          \/ Commit(t)
          \/ SelfRef(t)
          \/ SemRef(t)
          \/ Poll(t) /\ UNCHANGED tally
          \/ Post(t) /\ UNCHANGED tally
          \/ TryWait(t) /\ UNCHANGED tally
          \/ ReleaseRef(t)
    \/ Drop
    \/ Set

Spec == Init /\ [][Next]_vars

\* ------------------------------------------ try_init_with and its callers
\* The calls that initialize, with every limit a caller may give, and the
\* callers' record of the call a thread is in or has just returned from: the
\* limit it gave, the number of times its loop called sem_ref, and the gate's
\* value when the call was made.
Recorded(t, try) ==
    tally' = [tally EXCEPT
                !.tries = [u \in Threads |->
                              IF u = t THEN try ELSE IF pc[u] # "idle" THEN @[u] ELSE NoTry]]

Called(t, limit) == Recorded(t, [given |-> limit, polls |-> 0, gate |-> state.val])
Polled(t) == Recorded(t, [tally.tries[t] EXCEPT !.polls = @ + 1])

InitTry == kind \in {"unnamed", "anonymous"} /\ InitCommon

NextTry ==
    \E t \in Threads :
       \/ \E is_shared \in SharedRead, sem_count \in CountsRead :
             Begin(t, "init_with", is_shared, sem_count, 0) /\ Called(t, 0)
       \/ \E is_shared \in SharedRead, sem_count \in CountsRead, limit \in Limits :
             Begin(t, "try_init_with", is_shared, sem_count, limit) /\ Called(t, limit)
       \/ \E hostOk \in BOOLEAN : OsInit(t, hostOk)
       \/ Commit(t)
       \/ SelfRef(t)
       \/ Poll(t) /\ Polled(t)

SpecTry == InitTry /\ [][NextTry]_vars

\* ------------------------------------------- init_with with every argument
\* tests/usage/non_named.rs init_only_once, with threads: calls of init_with
\* with every is_shared and sem_count, also where another call has won the
\* gate, next to posts and try_waits through the references they gave.
NextLose ==
    \E t \in Threads :
       \/ \E is_shared \in BOOLEAN, sem_count \in Counts :
             Begin(t, "init_with", is_shared, sem_count, 0) /\ UNCHANGED tally
       \/ \E hostOk \in BOOLEAN : OsInit(t, hostOk)
       \/ Commit(t)
       \/ SelfRef(t)
       \/ tally.posts < MaxPosts /\ Post(t) /\ tally' = Counted(tally)
       \/ TryWait(t) /\ tally' = Counted(tally)

SpecLose == InitTry /\ [][NextLose]_vars

\* ------------------------------------------------ replacement in place
\* tests/usage/unnamed.rs drop_and_reinit, tests/usage/plaster.rs drop: the
\* container is initialized with any is_shared and sem_count, its value is
\* inspected, and it is replaced in place by a fresh one, or dropped.
\* start: the sem_count of the call that won the gate last
Started(ta) ==
    [ta EXCEPT !.start = IF \E t \in Threads : pc[t] = "idle" /\ pc'[t] = "os_init"
                         THEN call'[CHOOSE t \in Threads :
                                       pc[t] = "idle" /\ pc'[t] = "os_init"].sem_count
                         ELSE @]

NextSet ==
    \/ \E t \in Threads :
          \/ \E is_shared \in BOOLEAN, sem_count \in Counts :
                Begin(t, "init_with", is_shared, sem_count, 0) /\ tally' = Started(tally)
          \/ \E hostOk \in BOOLEAN : OsInit(t, hostOk)
          \/ Commit(t)
          \/ SelfRef(t)
          \/ SemRef(t)
          \/ GetValue(t)
          \/ ReleaseRef(t)
    \/ Drop
    \/ Set

SpecSet == InitTry /\ [][NextSet]_vars

\* ------------------------------------------------------------- display
\* The two ways a caller reaches display(): the method of the trait
\* non_named::Semaphore, whose receiver is Pin<&Self>, and the container's
\* own method (inherent = TRUE), whose receiver is Pin<&Self> for the unnamed
\* form and &self for the anonymous form. The anonymous form's own method
\* formats through impl Display for anonymous::Semaphore, whose body is todo!()
DisplayTodoNever(k, inherent) == FALSE
DisplayTodo(k, inherent) == k = "anonymous" /\ inherent

\* format!("{}", semaphore.display()): sem_ref, then "<Semaphore value:N>" with
\* N from get_value if it answered Ok (val "value", num N), and "<Semaphore>"
\* if it answered Err (val "placeholder"); the SemaphoreRef is a temporary
Display(t, inherent) ==
    /\ Container /\ alive
    /\ pc[t] = "idle"
    /\ LET e == [Ev(t, "display", "none") EXCEPT
                    !.flags = IF inherent THEN "inherent" ELSE "trait"] IN
       IF DisplayTodo(kind, inherent)
       THEN /\ ev' = [e EXCEPT !.val = "PanicTodo"]
            /\ UNCHANGED <<view, log>>
       ELSE \E res \in {"Ok", "Err", "PanicExpect"} :
               /\ DoSemRef(t, res)
               /\ IF res = "Ok"
                  THEN /\ \E sval \in SemGetValue(os, Waiters) :
                            ev' = [e EXCEPT !.val = "value", !.num = sval]
                       /\ log' = [log EXCEPT !.badOp = @ \/ ~os.live]
                  ELSE /\ ev' = [e EXCEPT !.val = IF res = "Err" THEN "placeholder" ELSE res]
                       /\ log' = log
    /\ UNCHANGED <<sys, handles, frame, kind, alive, sets, state, mem, pc, call, held, os, drop>>
    /\ UNCHANGED <<another, tally>>

\* tests/usage/non_named.rs fmt: the container is displayed before, while and
\* after it is initialized, and while its count changes
NextShow ==
    \E t \in Threads :
       \/ \E is_shared \in BOOLEAN, sem_count \in Counts :
             Begin(t, "init_with", is_shared, sem_count, 0) /\ UNCHANGED tally
       \/ \E hostOk \in BOOLEAN : OsInit(t, hostOk)
       \/ Commit(t)
       \/ SelfRef(t)
       \/ tally.posts < MaxPosts /\ Post(t) /\ tally' = Counted(tally)
       \/ TryWait(t) /\ tally' = Counted(tally)
       \/ \E inherent \in BOOLEAN : Display(t, inherent)

SpecShow == InitTry /\ [][NextShow]_vars

\* -------------------------------------- the operations on a ready semaphore
\* The container after init_with(false, sem_count) returned Ok to thread 1 and
\* every thread was given a SemaphoreRef (tests/usage: common, rarer,
\* memory_ordering), then the operations through the references, the
\* references going out of scope, and the teardown.
InitOps ==
    /\ kind \in {"unnamed", "anonymous"}
    /\ alive = TRUE
    /\ sets = 0
    /\ state = [val |-> READY, rel |-> 2]
    /\ mem = <<0, 1>>
    /\ view = [t \in Threads |-> 2]
    /\ pc = [t \in Threads |-> "idle"]
    /\ call = [t \in Threads |-> NoCall]
    /\ held = [t \in Threads |-> TRUE]
    /\ \E sem_count \in 0..SemValueMax :
          /\ os = [live |-> TRUE, count |-> sem_count, shared |-> FALSE]
          /\ tally = [NoTally EXCEPT !.start = sem_count]
    /\ log = [NewLog EXCEPT !.wins = 1, !.runs = 1, !.somes = 1, !.oks = 1, !.winner = 1]
    /\ drop = NoDrop
    /\ ev = NoEv
    /\ another = NewAnother
    /\ NoNamed

NextOps ==
    \/ \E t \in Threads :
          \/ tally.posts < MaxPosts /\ Post(t) /\ tally' = Counted(tally)
          \/ Wait(t) /\ tally' = Counted(tally)
          \/ Wake(t) /\ tally' = Counted(tally)
          \/ Interrupt(t)
          \/ TryWait(t) /\ tally' = Counted(tally)
          \/ GetValue(t)
          \/ SemRef(t)
          \/ ReleaseRef(t)
    \/ Drop

SpecOps == InitOps /\ [][NextOps]_vars

\* ------------------------------------ memory ordering of post and wait
\* tests/usage memory_ordering: the semaphore starts at 0, a thread stores 2
\* to ANOTHER_OBJECT, threads post and wait, and load ANOTHER_OBJECT.
InitOrder == InitOps /\ tally.start = 0

NextOrder ==
    \E t \in Threads :
       \/ StoreAnother(t)
       \/ tally.posts < MaxPosts /\ Post(t) /\ tally' = Ordered(Counted(tally))
       \/ Wait(t) /\ tally' = Ordered(Counted(tally))
       \/ Wake(t) /\ tally' = Ordered(Counted(tally))
       \/ Interrupt(t)
       \/ TryWait(t) /\ tally' = Ordered(Counted(tally))
       \/ LoadAnother(t)

SpecOrder == InitOrder /\ [][NextOrder]_vars

\* ------------------------------------------------- waits and their posts
\* tests/usage common: threads wait on the semaphore and threads post to it.
\* A thread blocked in sem_wait on a semaphore that stays lockable returns
\* from it (the scheduler runs it); nothing makes a signal arrive, and nothing
\* makes a caller call.
Posting(t) == tally.posts < MaxPosts /\ Post(t) /\ tally' = Entered(Counted(tally))
Waiting(t) == tally.calls < MaxWaits /\ Wait(t) /\ tally' = Entered(Counted(tally))
Waking(t) == Wake(t) /\ tally' = Entered(Counted(tally))

NextLive ==
    \E t \in Threads :
       \/ Posting(t)
       \/ Waiting(t)
       \/ Waking(t)
       \/ Interrupt(t)

SpecLive == InitOps /\ [][NextLive]_vars /\ \A t \in Threads : WF_vars(Waking(t))

\* ======================================================= named semaphores
\* The host's named semaphores (sem_open, sem_unlink), named::Semaphore over
\* them, and the operations through a SemaphoreRef::named of a handle.

\* mode: 0o600 lets the user open the semaphore again, 0o000 does not
ModeRW == "rw-------"
ModeNone == "---------"
Modes == {ModeRW, ModeNone}

\* OpenFlags
AccessOnly == [create |-> FALSE, exclusive |-> FALSE, mode |-> ModeNone, value |-> 0]
Create(exclusive, mode, value) ==
    [create |-> TRUE, exclusive |-> exclusive, mode |-> mode, value |-> value]
\* mode and value are read only where the call creates the semaphore, and
\* exclusive only where the name exists: where the call of sem_open does not
\* read them, Create { exclusive: true, mode: 0o600, value: 0 } stands for all
FlagsRead(w, name) ==
    IF w.names[name] = 0
    THEN {AccessOnly} \cup {Create(TRUE, m, v) : m \in Modes, v \in Counts}
            \cup {Create(FALSE, ModeRW, v) : v \in Counts}
    ELSE {AccessOnly, Create(TRUE, ModeRW, 0)}
            \cup {Create(FALSE, m, v) : m \in Modes, v \in Counts}
FlagsTag(flags) ==
    IF ~flags.create THEN "AccessOnly"
    ELSE IF flags.exclusive THEN "CreateExclusive" ELSE "Create"

Min(S) == CHOOSE x \in S : \A y \in S : x <= y

\* what one call of sem_open gives: the host after it, and the semaphore
\* opened or the errno
Failed(w, errno) == [sys |-> w, obj |-> 0, errno |-> errno]
Opened(w, id) == [sys |-> w, obj |-> id, errno |-> "none"]
Unmade(w) == {i \in Sems : ~w.sems[i].live}
SemCreated(w, name, flags) ==
    LET id == Min(Unmade(w))
    IN  Opened([names |-> [w.names EXCEPT ![name] = id],
                sems |-> [w.sems EXCEPT ![id] = [live |-> TRUE, count |-> flags.value,
                                                 mode |-> flags.mode]]], id)

\* sem_open(name, oflag[, mode, value]).  host is what the host has for the
\* call: "ok", a signal ("EINTR"), or no descriptor left ("EMFILE"); a lack
\* of resources fails a call that would otherwise open or create a semaphore.
SemOpenExistingSets(w, name, flags, host) ==
    Opened([w EXCEPT !.sems[w.names[name]].count = flags.value,
                     !.sems[w.names[name]].mode = flags.mode], w.names[name])
SemOpenExisting(w, name, flags, host) ==
    IF flags.create /\ flags.exclusive THEN Failed(w, "EEXIST")
    ELSE IF w.sems[w.names[name]].mode # ModeRW THEN Failed(w, "EACCES")
    ELSE IF host # "ok" THEN Failed(w, host)
    ELSE Opened(w, w.names[name])
SemOpenMissingCreates(w, name, flags, host) ==
    IF Unmade(w) = {} THEN Failed(w, "ENOSPC") ELSE SemCreated(w, name, flags)
SemOpenMissing(w, name, flags, host) ==
    IF ~flags.create THEN Failed(w, "ENOENT")
    ELSE IF flags.value > SemValueMax THEN Failed(w, "EINVAL")
    ELSE IF host # "ok" THEN Failed(w, host)
    ELSE IF Unmade(w) = {} THEN Failed(w, "ENOSPC")
    ELSE SemCreated(w, name, flags)
SemOpen(w, name, flags, host) ==
    IF host = "EINTR" THEN Failed(w, "EINTR")
    ELSE IF w.names[name] # 0 THEN SemOpenExisting(w, name, flags, host)
    ELSE SemOpenMissing(w, name, flags, host)

\* what the host has for the calls of sem_open of one Semaphore::open: signals
\* for some calls, then a call that no signal interrupts
HostRuns == {<<"ok">>, <<"EMFILE">>, <<"EINTR", "ok">>}

\* Semaphore::open: loop { sem_open; continue on EINTR; break Err or Ok }
OpenLoopOnce(w, name, flags, run) == SemOpen(w, name, flags, Head(run))
RECURSIVE OpenLoop(_, _, _, _)
OpenLoop(w, name, flags, run) ==
    LET r == SemOpen(w, name, flags, Head(run))
    IN  IF r.errno = "EINTR" THEN OpenLoop(w, name, flags, Tail(run)) ELSE r

\* sem_unlink(name)
SemUnlinkOk(w, name) == w.names[name] # 0
SemUnlinkedNothing(w, name) == w
SemUnlinkedAll(w, name) ==
    [names |-> [w.names EXCEPT ![name] = 0],
     sems |-> [w.sems EXCEPT ![w.names[name]] = NoSem]]
SemUnlinked(w, name) == [w EXCEPT !.names[name] = 0]

\* the sem_t * of a handle: where an open of a semaphore that the program has
\* open already gives the address it gave before, and where it gives another
Unused(hs) == Ptrs \ {h.ptr : h \in hs}
PtrsFor(hs, id) ==
    {h.ptr : h \in {g \in hs : g.obj = id}}
        \cup (IF Unused(hs) = {} THEN {} ELSE {Min(Unused(hs))})
ObjOf(hs, ptr) == (CHOOSE h \in hs : h.ptr = ptr).obj

EvNamed(e, name, flags, ptr) == [e EXCEPT !.name = name, !.flags = flags, !.ptr = ptr]

coreVars == <<kind, alive, sets, state, mem, view, pc, call, held, os, log, drop>>

\* Semaphore::open(name, open_flags); num of its return is the number of
\* calls of sem_open that a signal interrupted
Open(t, name, flags) ==
    /\ frame[t].pc = "idle"
    /\ \E run \in HostRuns :
          /\ Unused(handles) # {} \/ run[Len(run)] = "EMFILE"
          /\ LET r == OpenLoop(sys, name, flags, run)
                 e == [EvNamed(Ev(t, "open", "Ok"), name, FlagsTag(flags), 0)
                          EXCEPT !.num = Len(run) - 1]
             IN  /\ sys' = r.sys
                 /\ IF r.errno = "none"
                    THEN \E p \in PtrsFor(handles, r.obj) :
                            /\ handles' = handles \cup {[obj |-> r.obj, ptr |-> p]}
                            /\ ev' = [e EXCEPT !.ptr = p]
                    ELSE /\ handles' = handles
                         /\ ev' = [e EXCEPT !.val = "Err", !.errno = r.errno]
    /\ UNCHANGED <<coreVars, another, frame>>

\* Semaphore::unlink(name)
Unlink(t, name) ==
    /\ frame[t].pc = "idle"
    /\ IF SemUnlinkOk(sys, name)
       THEN /\ sys' = SemUnlinked(sys, name)
            /\ ev' = EvNamed(Ev(t, "unlink", "Ok"), name, "none", 0)
       ELSE /\ sys' = sys
            /\ ev' = EvNamed(EvErrno(t, "unlink", "ENOENT"), name, "none", 0)
    /\ UNCHANGED <<coreVars, another, handles, frame>>

\* SemaphoreRef::post through handle.sem_ref()
PostVia(t, h) ==
    /\ frame[t].pc = "idle" /\ h \in handles
    /\ IF SemPostOk(sys.sems[h.obj])
       THEN /\ sys' = [sys EXCEPT !.sems[h.obj] = SemPosted(@)]
            /\ ev' = EvNamed(Ev(t, "post", "Ok"), 0, "none", h.ptr)
            /\ another' = Published(another, t)
       ELSE /\ sys' = sys
            /\ ev' = EvNamed(EvErrno(t, "post", "EOVERFLOW"), 0, "none", h.ptr)
            /\ another' \in Unspecified(another, Published(another, t))
    /\ UNCHANGED <<coreVars, handles, frame>>

\* SemaphoreRef::try_wait through handle.sem_ref()
TryWaitVia(t, h) ==
    /\ frame[t].pc = "idle" /\ h \in handles
    /\ IF SemLockable(sys.sems[h.obj])
       THEN /\ sys' = [sys EXCEPT !.sems[h.obj] = SemLocked(@)]
            /\ ev' = EvNamed(Ev(t, "try_wait", "Ok"), 0, "none", h.ptr)
            /\ another' = Acquired(another, t)
       ELSE /\ sys' = sys
            /\ ev' = EvNamed(EvErrno(t, "try_wait", "EAGAIN"), 0, "none", h.ptr)
            /\ another' \in Unspecified(another, Acquired(another, t))
    /\ UNCHANGED <<coreVars, handles, frame>>

\* SemaphoreRef::wait through handle.sem_ref()
WaitVia(t, h) ==
    /\ frame[t].pc = "idle" /\ h \in handles
    /\ IF SemLockable(sys.sems[h.obj])
       THEN /\ sys' = [sys EXCEPT !.sems[h.obj] = SemLocked(@)]
            /\ ev' = EvNamed(Ev(t, "wait", "Ok"), 0, "none", h.ptr)
            /\ another' = Acquired(another, t)
            /\ frame' = frame
       ELSE /\ frame' = [frame EXCEPT ![t] = [NoFrame EXCEPT !.pc = "wait", !.ptr = h.ptr]]
            /\ ev' = NoEv
            /\ UNCHANGED <<sys, another>>
    /\ UNCHANGED <<coreVars, handles>>

\* a thread blocked in sem_wait on a handle's semaphore locks it and returns 0
WakeVia(t) ==
    /\ frame[t].pc = "wait"
    /\ SemLockable(sys.sems[ObjOf(handles, frame[t].ptr)])
    /\ sys' = [sys EXCEPT !.sems[ObjOf(handles, frame[t].ptr)] = SemLocked(@)]
    /\ ev' = EvNamed(Ev(t, "wait", "Ok"), 0, "none", frame[t].ptr)
    /\ another' = Acquired(another, t)
    /\ frame' = [frame EXCEPT ![t] = NoFrame]
    /\ UNCHANGED <<coreVars, handles>>

\* a signal interrupts a thread blocked in sem_wait: -1 with EINTR
InterruptVia(t) ==
    /\ frame[t].pc = "wait"
    /\ ev' = EvNamed(EvErrno(t, "wait", "EINTR"), 0, "none", frame[t].ptr)
    /\ another' \in Unspecified(another, Acquired(another, t))
    /\ frame' = [frame EXCEPT ![t] = NoFrame]
    /\ UNCHANGED <<coreVars, sys, handles>>

\* impl PartialEq for SemaphoreRef: ptr::eq(self.raw(), other.raw())
SemRefEqAlways(h1, h2) == TRUE
SemRefEq(h1, h2) == h1.ptr = h2.ptr

\* sr1 == sr2, of references through two handles
Compare(t, h1, h2) ==
    /\ frame[t].pc = "idle" /\ h1 \in handles /\ h2 \in handles
    /\ ev' = [EvNamed(Ev(t, "eq", IF SemRefEq(h1, h2) THEN "true" ELSE "false"),
                      0, "none", h1.ptr) EXCEPT !.num = h2.ptr]
    /\ UNCHANGED <<coreVars, another, sys, handles, frame>>

\* What the callers note of the returns, as tests/usage/named.rs does.
\* stage follows already_exists: 1 an exclusive create fails with EEXIST, 2 the
\* next return is the Ok of unlink of that name, 3 the next return is the Ok
\* of an exclusive create of that name.  twice: the return is of an unlink of
\* the name whose unlink returned Ok just before.  crossed: the return is the
\* Ok of a wait or try_wait through a handle just after the Ok of a post
\* through a handle with another sem_t *.
IsCreateExclusive(e, val) == e.op = "open" /\ e.flags = "CreateExclusive" /\ e.val = val
Noted(ta) ==
    [ta EXCEPT !.stage = IF IsCreateExclusive(ev', "Err") /\ ev'.errno = "EEXIST" THEN 1
                         ELSE IF @ = 1 /\ ev'.op = "unlink" /\ ev'.val = "Ok"
                                       /\ ev'.name = ev.name THEN 2
                         ELSE IF @ = 2 /\ IsCreateExclusive(ev', "Ok")
                                       /\ ev'.name = ev.name THEN 3
                         ELSE 0,
               !.twice = /\ ev'.op = "unlink" /\ ev.op = "unlink" /\ ev.val = "Ok"
                         /\ ev'.name = ev.name,
               !.crossed = /\ ReturnsOk({"wait", "try_wait"})
                           /\ ev.op = "post" /\ ev.val = "Ok" /\ ev.ptr # ev'.ptr]

InitNamed == kind = "named" /\ InitCommon

\* let name = &name("basic"): a test opens and unlinks its one name
TestNames == {Min(Names)}

\* tests/usage/named.rs, examples/multi-proc: the main thread opens, unlinks
\* and waits, and every thread posts
NextNamed ==
    \/ \E name \in TestNames : \E flags \in FlagsRead(sys, name) :
          Open(1, name, flags) /\ tally' = Noted(tally)
    \/ \E name \in TestNames : Unlink(1, name) /\ tally' = Noted(tally)
    \/ \E t \in Threads : \E h \in handles : PostVia(t, h) /\ tally' = Noted(tally)
    \/ \E h \in handles : TryWaitVia(1, h) /\ tally' = Noted(tally)
    \/ \E h \in handles : WaitVia(1, h) /\ tally' = Noted(tally)
    \/ WakeVia(1) /\ tally' = Noted(tally)
    \/ InterruptVia(1) /\ tally' = Noted(tally)

SpecNamed == InitNamed /\ [][NextNamed]_vars

\* tests/usage/refs.rs eq: semaphores are opened, and references through
\* their handles are compared
NextRefs ==
    \/ \E name \in TestNames : \E flags \in FlagsRead(sys, name) :
          Open(1, name, flags) /\ UNCHANGED tally
    \/ \E name \in TestNames : Unlink(1, name) /\ UNCHANGED tally
    \/ \E t \in Threads : \E h1 \in handles, h2 \in handles :
          Compare(t, h1, h2) /\ UNCHANGED tally

SpecRefs == InitNamed /\ [][NextRefs]_vars

\* ------------------------------------------------ Semaphore::anonymous_with
\* UniqueName::generate: the name buffer is filled anew from getrandom (or
\* from INIT_UNIQUE where that fails): any name, whatever the buffer held
GeneratedOnce(f) == IF f.name # 0 THEN {f.name} ELSE Names
Generated(f) == Names
\* the name that INIT_UNIQUE encodes to (INIT_UNIQUE of test anonymous)
InitUnique == Min(Names)

\* let mut unique_name = UniqueName::new(); let open_flags = ..
AnonBegin(t, sem_count) ==
    /\ frame[t].pc = "idle"
    /\ frame' = [frame EXCEPT ![t] = [NoFrame EXCEPT !.pc = "anon", !.sem_count = sem_count]]
    /\ ev' = NoEv
    /\ UNCHANGED <<coreVars, another, sys, handles>>

\* one turn of for _ in 0 .. TRY_LIMIT with the name generated in it:
\* generate, Semaphore::open with Create { exclusive: true, mode: 0o600, value:
\* sem_count }; after the last turn Err(())
AnonAttempt(t, name) ==
    /\ frame[t].pc = "anon"
    /\ \E run \in HostRuns :
          /\ Unused(handles) # {} \/ run[Len(run)] = "EMFILE"
          /\ LET r == OpenLoop(sys, name, Create(TRUE, ModeRW, frame[t].sem_count), run)
                 tried == [frame[t] EXCEPT !.tries = @ + 1, !.name = name]
             IN  /\ sys' = r.sys
                 /\ IF r.errno = "none"
                    THEN \E p \in PtrsFor(handles, r.obj) :
                            /\ handles' = handles \cup {[obj |-> r.obj, ptr |-> p]}
                            /\ frame' = [frame EXCEPT ![t] = [tried EXCEPT !.pc = "unlink",
                                                                            !.ptr = p]]
                            /\ ev' = NoEv
                    ELSE /\ handles' = handles
                         /\ IF tried.tries < TRY_LIMIT
                            THEN frame' = [frame EXCEPT ![t] = tried] /\ ev' = NoEv
                            ELSE /\ frame' = [frame EXCEPT ![t] = NoFrame]
                                 /\ ev' = [EvNamed(EvErrno(t, "anonymous_with", r.errno),
                                                   name, "CreateExclusive", 0)
                                              EXCEPT !.num = tried.tries]
    /\ UNCHANGED <<coreVars, another>>

AnonTry(t) == \E name \in Generated(frame[t]) : AnonAttempt(t, name)

\* let r = Self::unlink(name); debug_assert!(r.is_ok()); return Ok(sem): a
\* build with debug assertions panics where the unlink failed
AnonUnlink(t) ==
    /\ frame[t].pc = "unlink"
    /\ IF SemUnlinkOk(sys, frame[t].name)
       THEN /\ sys' = SemUnlinked(sys, frame[t].name)
            /\ ev' = [EvNamed(Ev(t, "anonymous_with", "Ok"), frame[t].name,
                              "CreateExclusive", frame[t].ptr) EXCEPT !.num = frame[t].tries]
       ELSE /\ sys' = sys
            /\ \E val \in {"Ok", "PanicDebugAssert"} :
                  ev' = [EvNamed(Ev(t, "anonymous_with", val), frame[t].name,
                                 "CreateExclusive", frame[t].ptr) EXCEPT !.num = frame[t].tries]
    /\ frame' = [frame EXCEPT ![t] = NoFrame]
    /\ UNCHANGED <<coreVars, another, handles>>

\* another process creates a semaphore with a name (as _dos_attack in test
\* anonymous), or unlinks a name: the host changes, and this program gets
\* no handle and no return
Elsewhere(name) ==
    /\ SemOpen(sys, name, Create(TRUE, ModeRW, 0), "ok").errno = "none"
    /\ sys' = SemOpen(sys, name, Create(TRUE, ModeRW, 0), "ok").sys
    /\ ev' = NoEv
    /\ UNCHANGED <<coreVars, another, handles, frame>>

ElsewhereUnlink(name) ==
    /\ SemUnlinkOk(sys, name)
    /\ sys' = SemUnlinked(sys, name)
    /\ ev' = NoEv
    /\ UNCHANGED <<coreVars, another, handles, frame>>

\* anonymous() is anonymous_with(0); a sem_count above SEM_VALUE_MAX fails
\* every sem_open
AnonCounts == {0, SemValueMax + 1}

\* tests/usage/named.rs anonymous: the main thread calls anonymous_with, and
\* between its calls tries to open the names with AccessOnly, while other
\* processes create and unlink names.  A thread in anonymous_with goes on with it: its
\* turns need nothing from another thread.
\* probed: the return is of an AccessOnly open of the name with which the
\* anonymous_with that returned Ok just before made its semaphore
Probed(ta) ==
    [ta EXCEPT !.probed = /\ ev'.op = "open" /\ ev'.flags = "AccessOnly"
                          /\ ev.op = "anonymous_with" /\ ev.val = "Ok"
                          /\ ev'.name = ev.name]

NextAnon ==
    \/ \E sem_count \in AnonCounts : AnonBegin(1, sem_count) /\ tally' = Probed(tally)
    \/ AnonTry(1) /\ tally' = Probed(tally)
    \/ AnonUnlink(1) /\ tally' = Probed(tally)
    \/ \E name \in Names : Open(1, name, AccessOnly) /\ tally' = Probed(tally)
    \/ \E name \in Names : Elsewhere(name) /\ tally' = Probed(tally)
    \/ \E name \in Names : ElsewhereUnlink(name) /\ tally' = Probed(tally)

Going(t) == (AnonTry(t) \/ AnonUnlink(t)) /\ tally' = Probed(tally)

SpecAnon == InitNamed /\ [][NextAnon]_vars /\ WF_vars(Going(1))

\* anonymous_with among other openers: the main thread calls anonymous_with,
\* the other threads open names at any time (the "other misbehaving part of
\* our same process" of the comment in anonymous_with), and another process
\* creates and unlinks the fallback name (_dos_attack of test anonymous).
\* anon: the semaphores that turns of anonymous_with have created
Owned(ta) ==
    [ta EXCEPT !.anon = @ \cup {ObjOf(handles', frame'[t].ptr) :
                                   t \in {u \in Threads : /\ frame[u].pc = "anon"
                                                          /\ frame'[u].pc = "unlink"}}]

NextOwn ==
    \/ AnonBegin(1, 0) /\ tally' = Owned(tally)
    \/ AnonTry(1) /\ tally' = Owned(tally)
    \/ AnonUnlink(1) /\ tally' = Owned(tally)
    \/ \E t \in Threads \ {1} : \E name \in Names :
          Open(t, name, AccessOnly) /\ tally' = Owned(tally)
    \/ Elsewhere(InitUnique) /\ tally' = Owned(tally)
    \/ ElsewhereUnlink(InitUnique) /\ tally' = Owned(tally)

SpecOwn == InitNamed /\ [][NextOwn]_vars

\* ---------------------------------------------------------- Semaphore::close
\* sem_close(sem) on the two kinds of host the doc of close tells apart: one
\* that invalidates a semaphore when every open of it has its close, and one
\* where the first close invalidates all the other instances (OpenIndiana)
Platforms == {"counted", "first"}

\* The program's named::Semaphore values and its sem_t *s, as a record next to
\* handles: insts[p] is the number of values whose ptr is p (a value is
\* neither Copy nor Clone: open makes one, close(self) consumes one), bad the
\* sem_t *s that a close has invalidated while values with them remain,
\* platform the kind of host once a close has shown it.
\* loose: a close was made against the # Safety section of close.  wild: an
\* operation was issued on a sem_t * that a close had invalidated.
Blocked(p) == Cardinality({t \in Threads : frame[t].pc = "wait" /\ frame[t].ptr = p})
Others(ta, h) ==
    {g \in handles : g.obj = h.obj /\ ta.insts[g.ptr] > (IF g = h THEN 1 ELSE 0)}

\* the sem_t *s still in values that sem_close of one value of h invalidates
SemCloseInvalidatesAll(ta, h, platform) == {g.ptr : g \in Others(ta, h)}
SemCloseInvalidates(ta, h, platform) ==
    IF platform = "first" THEN {g.ptr : g \in Others(ta, h)} ELSE {}

\* # Safety of close: no other instance for the underlying OS semaphore, or
\* an OS that invalidates only when all opens have a matching close; and no
\* thread blocked on the semaphore
CloseSafe(ta, h, platform) ==
    /\ Others(ta, h) = {} \/ platform = "counted"
    /\ \A t \in Threads :
          frame[t].pc = "wait" => ObjOf(handles, frame[t].ptr) # h.obj

\* unsafe { sem.close() } of a value with h's sem_t *, on a host of kind
\* platform.  close takes self by value: it is possible only for a value that
\* nothing borrows, so the SemaphoreRef of a blocked thread is of another value.
\* A close while a thread is blocked on the semaphore is undefined: the
\* sem_t * of the blocked thread may be invalid after it.
Close(t, h, platform) ==
    /\ frame[t].pc = "idle" /\ h \in handles
    /\ Blocked(h.ptr) = 0 \/ tally.insts[h.ptr] > 1
    /\ tally.platform \in {"unknown", platform}
    /\ ~tally.wild
    /\ handles' = IF tally.insts[h.ptr] = 1 THEN handles \ {h} ELSE handles
    /\ \E undef \in SUBSET {g.ptr : g \in {k \in Others(tally, h) :
                                              \E u \in Threads : /\ frame[u].pc = "wait"
                                                                  /\ frame[u].ptr = k.ptr}} :
          tally' = [tally EXCEPT
                      !.insts[h.ptr] = @ - 1,
                      !.bad = (@ \cup SemCloseInvalidates(tally, h, platform) \cup undef)
                                 \ (IF tally.insts[h.ptr] = 1 THEN {h.ptr} ELSE {}),
                      !.platform = platform,
                      !.loose = @ \/ ~CloseSafe(tally, h, platform),
                      !.wild = @ \/ h.ptr \in tally.bad]
    /\ \E val \in IF h.ptr \in tally.bad THEN {"Ok", "Err"} ELSE {"Ok"} :
          ev' = EvNamed(Ev(t, "close", val), 0, "none", h.ptr)
    /\ UNCHANGED <<coreVars, another, sys, frame>>

\* an operation through a SemaphoreRef whose sem_t * a close has invalidated,
\* where it does not go on as on an open semaphore: it fails, or the thread
\* gets a signal (the seg-fault of the doc of close)
OpsVia == {"post", "wait", "try_wait"}
ViaClosed(t, h, op) ==
    /\ frame[t].pc = "idle" /\ h \in handles /\ h.ptr \in tally.bad
    /\ \E val \in {"Err", "SIGSEGV"} :
          ev' = EvNamed([Ev(t, op, val) EXCEPT !.errno = "EINVAL"], 0, "none", h.ptr)
    /\ UNCHANGED <<coreVars, another, sys, handles, frame>>

\* the record after a step that is no close: a returned open is one more
\* value of its sem_t *, and an operation issued in the step on an invalidated
\* sem_t * is wild
Kept(ta) ==
    [ta EXCEPT !.insts = IF ev'.op = "open" /\ ev'.val = "Ok"
                         THEN [@ EXCEPT ![ev'.ptr] = @ + 1] ELSE @,
               !.wild = \/ @
                        \/ ev'.op \in OpsVia /\ ev'.ptr \in ta.bad
                        \/ \E t \in Threads : /\ frame[t].pc = "idle" /\ frame'[t].pc = "wait"
                                               /\ frame'[t].ptr \in ta.bad]

\* the opens of test basic
BasicFlags == {Create(TRUE, ModeRW, 0), Create(FALSE, ModeNone, 0), AccessOnly}

\* the program goes on while its behaviour is defined: after an operation on
\* an invalidated sem_t * nothing is known of it
Keeping == ~tally.wild /\ tally' = Kept(tally)

\* tests/usage/named.rs basic: the main thread opens its name several times,
\* posts through the values' references and closes values, and the other
\* threads wait through the values' references
NextClose ==
    \/ \E name \in TestNames : \E flags \in BasicFlags :
          /\ Open(1, name, flags) /\ Keeping
          /\ ev'.val = "Ok" =>
                ev'.ptr \notin tally.bad /\ tally'.insts[ev'.ptr] <= MaxOpens
    \/ \E h \in handles, platform \in Platforms : Close(1, h, platform)
    \/ \E h \in handles :
          \/ PostVia(1, h) /\ Keeping
          \/ \E op \in OpsVia : ViaClosed(1, h, op) /\ Keeping
    \/ \E t \in Threads \ {1} :
          \/ \E h \in handles : WaitVia(t, h) /\ Keeping
          \/ WakeVia(t) /\ Keeping
          \/ InterruptVia(t) /\ Keeping

SpecClose == InitNamed /\ [][NextClose]_vars

\* ================================================================ claims

InWork == {"f", "os_init", "commit_ok", "commit_err", "self_ref"}
IsWinner(t) == t = log.winner

\* C1: among the calls of call_once on one gate exactly one wins the
\* compare-and-exchange, runs its init function and gets Some(result); a call
\* that gets None is not the one that ran it, whether the winner is still
\* running, succeeded or failed.
C1_ExactlyOneRuns ==
    kind # "unnamed" =>
        /\ log.wins <= 1 /\ log.runs <= log.wins /\ log.somes <= log.runs
        /\ state.val # UNINITIALIZED => log.wins = 1
        /\ \A t \in Threads : pc[t] \in InWork => IsWinner(t)
        /\ ev.op = "call_once" /\ ev.val \in {"SomeOk", "SomeErr"} =>
              IsWinner(ev.t) /\ log.runs = 1 /\ log.somes = 1
        /\ ev.op = "call_once" /\ ev.val = "None" =>
              /\ log.wins = 1
              /\ ~IsWinner(ev.t) \/ log.somes = 1

C1_Witness ==
    /\ kind = "once" /\ log.failed
    /\ ev.op = "call_once" /\ ev.val = "None" /\ ~IsWinner(ev.t)

\* C2: of the init_with calls on one container at most one returns Ok, and it
\* is the winner's, whose call cannot end otherwise once its OS initialization
\* succeeded; every init_with of another caller that returns returns
\* Err(true); once Ok was returned, every sem_ref returns Ok.
C2_OneOkThenReady ==
    Container =>
        /\ log.oks <= 1
        /\ ev.op = "init_with" /\ ev.val = "Ok" => IsWinner(ev.t) /\ log.oks = 1
        /\ ev.op = "init_with" /\ ~IsWinner(ev.t) /\ ev.val # "Panic" => ev.val = "ErrTrue"
        /\ ev.op = "init_with" /\ log.oks = 1 /\ ev.val # "Panic" =>
              ev.val \in {"Ok", "ErrTrue"}
        /\ ev.op = "init_with" /\ ev.val = "ErrFalse" => ~os.live
        /\ \A t \in Threads :
              pc[t] = "self_ref" => IsWinner(t) /\ state.val = READY /\ mem[view[t]] = 1
        /\ ev.val # "PanicExpect"
        /\ log.oks = 1 /\ ev.op = "sem_ref" => ev.val = "Ok"

C2_Witness ==
    /\ Container /\ log.oks = 1
    /\ ev.op = "sem_ref" /\ ev.val = "Ok" /\ ~IsWinner(ev.t)
    /\ \E t \in Threads : ~IsWinner(t) /\ held[t]

\* C3: sem_ref gives a SemaphoreRef only when the gate is READY: it answers
\* Err when the gate is UNINITIALIZED or PREPARING (in flight or failed); every
\* SemaphoreRef alive refers to an initialized OS object and no operation was
\* issued on one that is not.
C3_RefOnlyWhenReady ==
    Container =>
        /\ ev.op = "sem_ref" /\ ev.val = "Ok" => state.val = READY
        /\ ev.op = "sem_ref" /\ state.val # READY => ev.val = "Err"
        /\ \A t \in Threads : held[t] => state.val = READY /\ os.live
        /\ ~log.badOp

C3_Witness ==
    /\ Container /\ state.val = PREPARING /\ log.failed
    /\ ev.op = "sem_ref" /\ ev.val = "Err"

\* C4: on one container the OS-level initialization (sem_init, anonymous_with)
\* is invoked at most once, whatever init / init_with / try_init /
\* try_init_with calls are made.
C4_OsInitAtMostOnce == Container => log.runs <= 1

C4_Witness ==
    /\ Container /\ log.runs = 1
    /\ ev.op = "try_init_with" /\ ev.val = "None" /\ ~IsWinner(ev.t)

\* C5: the gate word of one gate changes only UNINITIALIZED -> PREPARING and
\* PREPARING -> READY, the latter only in a step of the compare-and-exchange
\* winner whose initialization work returned success.
C5_GateTransitions ==
    [][ sets' = sets /\ state'.val # state.val =>
           \/ state.val = UNINITIALIZED /\ state'.val = PREPARING
           \/ /\ state.val = PREPARING /\ state'.val = READY
              /\ \E t \in Threads :
                    IsWinner(t) /\ pc[t] = "commit_ok" /\ pc'[t] # "commit_ok" ]_vars

C5_Witness ==
    /\ state.val = READY
    /\ ev.op \in {"init_with", "call_once"} /\ ev.val \in {"ErrTrue", "None"}

\* C6: once the init function returned an error the gate is PREPARING and
\* stays so: is_ready() answers false, call_once answers None, the init work
\* is not run again.
C6_FailureSticks ==
    log.failed =>
        /\ state.val = PREPARING
        /\ log.wins = 1 /\ log.runs = 1
        /\ \A t \in Threads : pc[t] \notin InWork
        /\ ev.op = "is_ready" => ev.val = "false"
        /\ ev.op = "call_once" => ev.val \in {"SomeErr", "None"}
        /\ ev.op = "call_once" /\ ev.val = "SomeErr" => IsWinner(ev.t)

C6_Witness ==
    /\ kind = "once" /\ log.failed
    /\ ev.op = "is_ready" /\ ev.val = "false"

\* C7: init_with returns Err(false) exactly when the caller won the race and
\* the OS initialization failed (as it does for a start count above the
\* maximum); from then on the gate is not READY and sem_ref returns Err.
C7_ErrFalse ==
    /\ [](Container =>
            /\ ev.op = "init_with" /\ ev.val = "ErrFalse" =>
                  IsWinner(ev.t) /\ log.failed /\ log.runs = 1 /\ ~os.live
            /\ log.failed =>
                  /\ state.val # READY /\ ~os.live
                  /\ ev.op = "sem_ref" => ev.val = "Err"
                  /\ \A t \in Threads : ~held[t]
            /\ os.live => os.count <= SemValueMax
            /\ \A t \in Threads :
                  pc[t] = "commit_ok" => os.live)
    /\ [][ \A t \in Threads :
              Container /\ pc[t] = "commit_err" /\ pc'[t] # "commit_err"
                   /\ call[t].op = "init_with"
              => ev' = Ev(t, "init_with", "ErrFalse") ]_vars

C7_Witness ==
    /\ Container /\ log.failed
    /\ ev.op = "sem_ref" /\ ev.val = "Err" /\ IsWinner(ev.t)

C9_InitWritesVisible ==
    /\ ev.op = "load" => ev.val = "1"
    /\ ev.op = "is_ready" /\ ev.val = "true" => mem[view[ev.t]] = 1
    /\ ev.op \in {"sem_ref", "init_with", "try_init_with"} /\ ev.val \in {"Ok", "Some"} =>
          mem[view[ev.t]] = 1
    /\ ev.val # "PanicExpect"
    /\ \A t \in Threads : held[t] => mem[view[t]] = 1
    /\ state.val = READY => mem[Len(mem)] = 1 /\ mem[state.rel] = 1
    /\ ~log.badOp

C9_Witness ==
    /\ kind = "once" /\ ev.op = "load" /\ ev.val = "1" /\ ~IsWinner(ev.t)
    /\ view[ev.t] = Len(mem)

\* C10: teardown destroys the OS object if and only if the gate is READY: a
\* container still UNINITIALIZED or stuck in PREPARING makes no OS call, a
\* READY one is destroyed once, and no OS object is left behind.
C10_DestroyIffReady ==
    /\ drop.done =>
          /\ drop.destroys = (IF drop.gate = READY THEN 1 ELSE 0)
          /\ drop.wasLive <=> drop.destroys = 1
    /\ ~alive => ~os.live

C10_Witness ==
    /\ kind = "unnamed" /\ drop.done
    /\ drop.gate = PREPARING /\ drop.destroys = 0

Try(t) == tally.tries[t]
Quiescent == \A t \in Threads : pc[t] = "idle"
Expected == tally.start + tally.posts - tally.waits

\* C11: the teardown (sem_destroy, sem_close) runs only when no SemaphoreRef
\* of the container is alive: at the step that destroys the OS object no
\* thread holds a reference, is blocked in wait or is inside an operation, and
\* no operation reaches the object after it, nor any object that is not live.
C11_NoTeardownWhileBorrowed ==
    /\ [](/\ \A t \in Threads : held[t] \/ pc[t] # "idle" => alive /\ os.live
          /\ ~alive => ~os.live /\ drop.done
          /\ ev.op \in {"post", "wait", "try_wait", "get_value"} => os.live
          /\ ~log.badOp)
    /\ [][ os.live /\ ~os'.live =>
              /\ ev'.op = "drop"
              /\ \A t \in Threads : ~held[t] /\ pc[t] = "idle" ]_vars

C11_Witness ==
    /\ ~alive /\ ev.op = "drop" /\ drop.destroys = 1
    /\ tally.posts > 0 /\ tally.waits > 0

\* C12: try_init_with (try_init) called when the gate is READY returns Some,
\* for every limit, 0 included: it does not win the compare-and-exchange, runs
\* no OS initialization, and its first call of sem_ref gives the reference.
\* (The anonymous form called with is_shared = true panics before all that.)
C12_ReadyGivesSome ==
    Container =>
        \A t \in Threads :
            Try(t).gate = READY =>
                /\ state.val = READY /\ log.runs = 1
                /\ pc[t] \in {"idle", "poll"}
                /\ pc[t] = "poll" => Try(t).polls = 0
                /\ ev.t = t /\ ev.op = "try_init_with" /\ ev.val # "Panic" =>
                      /\ ev.val = "Some" /\ held[t]
                      /\ Try(t).polls = 1

C12_Witness ==
    /\ Container /\ ev.op = "try_init_with" /\ ev.val = "Some"
    /\ Try(ev.t).gate = READY /\ Try(ev.t).given = 0 /\ Try(ev.t).polls = 1

\* C13 (as claimed): a try_init_with that finds the gate taken calls sem_ref
\* at most limit times.
C13_AtMostLimitChecks ==
    Container => \A t \in Threads : Try(t).polls <= Try(t).given

\* C13 (amended): a try_init_with that finds the gate taken calls sem_ref at
\* most max(limit, 1) times; it returns Some at the first of these calls that
\* finds the gate READY and None after the last of them; each turn of the
\* loop can be taken whatever the other threads do and uses up one of these
\* calls, so the loop ends.
C13_AtMostLimitOrOneChecks ==
    /\ [](Container =>
            \A t \in Threads :
                /\ Try(t).polls <= Max(Try(t).given, 1)
                /\ pc[t] = "poll" =>
                      /\ Try(t).polls < Max(Try(t).given, 1)
                      /\ call[t].limit = Try(t).given - Try(t).polls
                      /\ ENABLED Poll(t)
                /\ ev.t = t /\ ev.op = "try_init_with" /\ ev.val = "None"
                      /\ Try(t).gate # UNINITIALIZED =>
                      /\ Try(t).polls = Max(Try(t).given, 1)
                      /\ state.val # READY)
    /\ [][ \A t \in Threads :
              pc[t] = "poll" /\ Try(t)' # Try(t) =>
                  /\ Try(t)'.polls = Try(t).polls + 1
                  /\ IF state.val = READY
                     THEN ev' = Ev(t, "try_init_with", "Some") /\ pc'[t] = "idle"
                     ELSE IF Try(t)'.polls = Max(Try(t).given, 1)
                     THEN ev' = Ev(t, "try_init_with", "None") /\ pc'[t] = "idle"
                     ELSE ev' = NoEv /\ pc'[t] = "poll" ]_vars

C13_Witness ==
    /\ Container /\ ev.op = "try_init_with" /\ ev.val = "None"
    /\ Try(ev.t).gate = PREPARING /\ Try(ev.t).given = 2 /\ Try(ev.t).polls = 2
    /\ ~log.failed /\ \E u \in Threads : pc[u] \in InWork

\* C14 (as claimed): try_init_with never itself performs the OS-level
\* initialization.
C14_TryNeverInitializes ==
    Container => \A t \in Threads : call[t].op = "try_init_with" => pc[t] \notin InWork

\* C14 (amended): try_init_with performs the OS-level initialization itself
\* exactly when its own compare-and-exchange finds the gate UNINITIALIZED; when
\* it finds the gate taken it performs none and only calls sem_ref.
C14_TryInitializesIffFirst ==
    Container =>
        /\ log.runs <= 1
        /\ \A t \in Threads :
              call[t].op = "try_init_with" =>
                  /\ pc[t] \in InWork <=> Try(t).gate = UNINITIALIZED
                  /\ pc[t] = "poll" <=> Try(t).gate # UNINITIALIZED
                  /\ pc[t] \in InWork => IsWinner(t)
        /\ ev.op = "try_init_with" /\ ev.val = "Some"
              /\ Try(ev.t).gate = UNINITIALIZED => log.runs = 1 /\ IsWinner(ev.t)

C14_Witness ==
    /\ Container /\ ev.op = "try_init_with" /\ ev.val = "Some"
    /\ Try(ev.t).gate = UNINITIALIZED /\ log.runs = 1 /\ os.live

\* C15: a try_init_with that wins the compare-and-exchange and whose OS
\* initialization fails returns None at once, without a call of sem_ref,
\* whatever its limit, and leaves the gate not READY.
C15_WinnerFailureGivesNone ==
    /\ [](Container =>
            /\ \A t \in Threads :
                  pc[t] \in InWork => Try(t).gate = UNINITIALIZED /\ Try(t).polls = 0
            /\ ev.op = "try_init_with" /\ Try(ev.t).gate = UNINITIALIZED
                  /\ log.failed /\ ev.val # "Panic" =>
                  /\ ev.val = "None" /\ Try(ev.t).polls = 0
                  /\ state.val = PREPARING /\ ~os.live /\ ~held[ev.t])
    /\ [][ \A t \in Threads :
              Container /\ call[t].op = "try_init_with"
                   /\ pc[t] = "commit_err" /\ pc'[t] # "commit_err" =>
                  /\ ev' = Ev(t, "try_init_with", "None")
                  /\ pc'[t] = "idle" /\ state'.val = PREPARING ]_vars

C15_Witness ==
    /\ Container /\ ev.op = "try_init_with" /\ ev.val = "None"
    /\ Try(ev.t).gate = UNINITIALIZED /\ Try(ev.t).given = MaxLimit
    /\ log.failed /\ state.val = PREPARING

\* C16: with start count c, p successful posts and w successful waits
\* (wait and try_wait) by whatever threads in whatever order, the count is
\* c + p - w, and get_value returns it once no call is in progress (start 0,
\* two posts and two waits give 0).
C16_ValueIsStartPlusPostsMinusWaits ==
    /\ os.live => os.count = Expected
    /\ ev.op = "get_value" /\ Quiescent => ev.num = Expected

C16_Witness ==
    /\ ev.op = "get_value" /\ Quiescent /\ ev.num = 0
    /\ tally.start = 0 /\ tally.posts = 2 /\ tally.waits = 2

\* C17: wait takes one from the count and blocks while the count is zero: the
\* count is never negative, the successful waits never outnumber the start
\* count plus the successful posts, a wait returns Ok only from a count above
\* zero, which it lowers by one, a thread blocks in wait only at count zero,
\* and a wait that fails (EINTR) leaves the count as it was.
C17_WaitDecrementsOrBlocks ==
    /\ [](/\ os.count >= 0
          /\ tally.waits <= tally.start + tally.posts
          /\ ev.op = "wait" /\ ev.val = "Err" => ev.errno = "EINTR")
    /\ [][ /\ ev'.op = "wait" /\ ev'.val = "Ok" =>
                os.count > 0 /\ os'.count = os.count - 1
           /\ ev'.op = "wait" /\ ev'.val = "Err" => os' = os
           /\ \A t \in Threads :
                 pc[t] = "idle" /\ pc'[t] = "wait" => os.count = 0 /\ os' = os ]_vars

C17_Witness ==
    /\ ev.op = "wait" /\ ev.val = "Err" /\ ev.errno = "EINTR"
    /\ os.count = 0 /\ tally.waits > 0 /\ tally.waits = tally.start + tally.posts

\* C18: try_wait never blocks: a thread holding a reference can always call
\* it and it returns in the step in which it is called, whatever the count; at
\* count zero it returns an error with EAGAIN and the count stays zero, at a
\* count above zero it returns Ok and lowers the count by one.
C18_TryWaitNeverBlocks ==
    /\ [](\A t \in Threads :
            /\ pc[t] \in {"idle", "wait"}
            /\ pc[t] = "idle" /\ held[t] => ENABLED TryWait(t))
    /\ [][ \A t \in Threads :
              ev'.op = "try_wait" /\ ev'.t = t =>
                    /\ pc[t] = "idle" /\ pc'[t] = "idle"
                    /\ IF os.count = 0
                       THEN ev' = EvErrno(t, "try_wait", "EAGAIN") /\ os'.count = 0
                       ELSE ev' = Ev(t, "try_wait", "Ok") /\ os'.count = os.count - 1 ]_vars

C18_Witness ==
    /\ ev.op = "try_wait" /\ ev.errno = "EAGAIN" /\ os.count = 0
    /\ tally.posts > 0 /\ tally.waits > 0

\* C19: with start count 0 and every successful post made by a thread that has
\* the store of 2 to the other object behind it (its own, or one it has
\* seen), a thread that got a successful wait has that store in view: its
\* loads of the other object give 2, and no wait returned Ok before the store
\* was made.
C19_StoreVisibleAfterWait ==
    tally.start = 0 /\ ~tally.early =>
        /\ tally.got # {} => Len(another.hist) = 2 /\ tally.posts > 0
        /\ \A t \in tally.got : another.hist[another.view[t]] = 2
        /\ ev.op = "load_another" /\ ev.t \in tally.got => ev.num = 2

C19_Witness ==
    /\ tally.start = 0 /\ ~tally.early
    /\ ev.op = "load_another" /\ ev.num = 2
    /\ ev.t \in tally.got /\ ev.t # tally.writer
    /\ tally.posts = 1 /\ tally.waits = 1

\* C20: a wait called by the thread whose successful post was the last return
\* before it, no step of another thread in between, returns Ok in the step in
\* which it is called, and leaves the count as it was before that post: the
\* post raised it by one and the wait lowers it by one.
C20_PostThenWait ==
    /\ [](ev.op = "post" /\ ev.val = "Ok" => os.count > 0)
    /\ [][ /\ ev'.op = "post" /\ ev'.val = "Ok" => os'.count = os.count + 1
           /\ \A t \in Threads :
                 ev = Ev(t, "post", "Ok")
                     /\ (pc'[t] = "wait" \/ (ev'.op = "wait" /\ ev'.t = t)) =>
                 /\ ev' = Ev(t, "wait", "Ok") /\ pc'[t] = "idle"
                 /\ os'.count = os.count - 1
                 /\ tally'.own ]_vars

C20_Witness ==
    /\ tally.own /\ ev.op = "wait" /\ ev.val = "Ok"
    /\ os.count = tally.start /\ tally.posts = 1 /\ tally.waits = 1

\* C21: when the callers make no more calls of wait than the start count plus
\* the posts that return Ok, then from some time on no thread is blocked in
\* wait: every such call returns.  A thread blocks in wait only at count 0,
\* the count rises only in a step in which a post returns Ok, and a blocked
\* thread leaves wait only by locking the semaphore (Ok, the count above 0
\* and one lower afterwards) or by the EINTR of a signal.
C21_CoveredWaitsReturn ==
    /\ <>[](tally.calls <= tally.start + tally.posts) => <>[](Waiters = 0)
    /\ [][ /\ os'.count > os.count => ev'.op = "post" /\ ev'.val = "Ok"
           /\ \A t \in Threads :
                 /\ pc[t] = "idle" /\ pc'[t] = "wait" => os.count = 0
                 /\ pc[t] = "wait" /\ pc'[t] = "idle" =>
                       \/ ev' = EvErrno(t, "wait", "EINTR") /\ os' = os
                       \/ /\ ev' = Ev(t, "wait", "Ok")
                          /\ os.count > 0 /\ os'.count = os.count - 1 ]_vars

C21_Witness ==
    /\ tally.woke /\ ev.op = "wait" /\ ev.val = "Ok"
    /\ tally.start = 0 /\ tally.posts = 1 /\ tally.calls = 1 /\ Waiters = 0

\* C22: a post on a count below the maximum returns Ok and leaves the count
\* exactly one higher; a post on a count at the maximum returns the error
\* EOVERFLOW and leaves the semaphore as it was; the count is never above the
\* maximum.
C22_PostAddsOneOrOverflows ==
    /\ [](os.count <= SemValueMax)
    /\ [][ ev'.op = "post" =>
             IF os.count < SemValueMax
             THEN ev'.val = "Ok" /\ os'.count = os.count + 1
             ELSE ev'.val = "Err" /\ ev'.errno = "EOVERFLOW" /\ os' = os ]_vars

C22_Witness ==
    /\ ev.op = "post" /\ ev.errno = "EOVERFLOW"
    /\ os.count = SemValueMax /\ tally.posts = 1 /\ tally.start = SemValueMax - 1

\* the semaphores that no name names
Unnamed(w) == {i \in Sems : w.sems[i].live /\ \A n \in Names : w.names[n] # i}
IsVia(e, ops) == e.op \in ops /\ e.ptr # 0

\* C23: an open with AccessOnly of a name that names nothing returns Err with
\* ENOENT, and leaves the names, the semaphores and the handles as they were.
C23_AccessOnlyMissingIsNotFound ==
    [][ ev'.op = "open" /\ ev'.flags = "AccessOnly" /\ sys.names[ev'.name] = 0 =>
          /\ ev'.val = "Err" /\ ev'.errno = "ENOENT"
          /\ sys' = sys /\ handles' = handles ]_vars

C23_Witness ==
    /\ ev.op = "open" /\ ev.flags = "AccessOnly" /\ ev.errno = "ENOENT"
    /\ sys.names[ev.name] = 0

\* C24: an open with Create { exclusive: true } of a name that names a
\* semaphore returns Err with EEXIST and leaves the names, the semaphores
\* (their counts) and the handles as they were; of a name that names nothing
\* (as after its unlink) it never fails with EEXIST: it returns Ok with a
\* semaphore that did not exist before, now named by the name, or fails for
\* the value (EINVAL) or the host's resources (EMFILE, ENOSPC) alone.
C24_ExclusiveCreateExists ==
    [][ ev'.op = "open" /\ ev'.flags = "CreateExclusive" =>
          IF sys.names[ev'.name] # 0
          THEN /\ ev'.val = "Err" /\ ev'.errno = "EEXIST"
               /\ sys' = sys /\ handles' = handles
          ELSE \/ /\ ev'.val = "Ok"
                  /\ sys'.names[ev'.name] \in Unmade(sys)
                  /\ ObjOf(handles', ev'.ptr) = sys'.names[ev'.name]
               \/ /\ ev'.val = "Err" /\ ev'.errno \in {"EINVAL", "EMFILE", "ENOSPC"}
                  /\ sys' = sys /\ handles' = handles ]_vars

C24_Witness ==
    /\ tally.stage = 3 /\ IsCreateExclusive(ev, "Ok")
    /\ sys.names[ev.name] # 0 /\ Unnamed(sys) # {}

\* C25: an unlink of a name that names nothing returns Err with ENOENT and
\* changes nothing; an unlink of a name that names a semaphore returns Ok and
\* the name names nothing afterwards, and it stays so until an open creates
\* it: an unlink of the name right after the Ok of its unlink fails with
\* ENOENT.
C25_UnlinkOnceThenNotFound ==
    [][ /\ ev'.op = "unlink" =>
             IF sys.names[ev'.name] = 0
             THEN ev'.val = "Err" /\ ev'.errno = "ENOENT" /\ sys' = sys
             ELSE ev'.val = "Ok" /\ sys'.names[ev'.name] = 0
        /\ ev'.op = "unlink" /\ ev.op = "unlink" /\ ev.val = "Ok" /\ ev'.name = ev.name =>
             ev'.val = "Err" /\ ev'.errno = "ENOENT" /\ tally'.twice
        /\ \A n \in Names :
             sys.names[n] = 0 /\ sys'.names[n] # 0 =>
                ev'.op = "open" /\ ev'.val = "Ok" /\ ev'.name = n
                    /\ ev'.flags # "AccessOnly" ]_vars

C25_Witness ==
    /\ tally.twice /\ ev.op = "unlink" /\ ev.errno = "ENOENT"
    /\ sys.names[ev.name] = 0 /\ Unnamed(sys) # {}

\* C26: the semaphore of every handle exists, whatever was unlinked; an unlink
\* changes the name alone (no semaphore, no handle, no other name); a post,
\* wait or try_wait through a handle changes the count of that handle's
\* semaphore alone, named or not; and a semaphore that no name names is never
\* named again nor given by an open.
C26_UnlinkRemovesOnlyTheName ==
    /\ [](\A h \in handles : sys.sems[h.obj].live)
    /\ [][ /\ ev'.op = "unlink" =>
                 /\ handles' = handles /\ sys'.sems = sys.sems
                 /\ \A n \in Names \ {ev'.name} : sys'.names[n] = sys.names[n]
           /\ IsVia(ev', {"post", "wait", "try_wait"}) =>
                 /\ handles' = handles /\ sys'.names = sys.names
                 /\ \A i \in Sems \ {ObjOf(handles, ev'.ptr)} : sys'.sems[i] = sys.sems[i]
                 /\ sys'.sems[ObjOf(handles, ev'.ptr)].count =
                       sys.sems[ObjOf(handles, ev'.ptr)].count
                         + (IF ev'.val # "Ok" THEN 0 ELSE IF ev'.op = "post" THEN 1 ELSE -1)
           /\ \A i \in Unnamed(sys) :
                 /\ i \in Unnamed(sys')
                 /\ ev'.op = "open" /\ ev'.val = "Ok" => ObjOf(handles', ev'.ptr) # i ]_vars

C26_Witness ==
    /\ IsVia(ev, {"wait", "try_wait"}) /\ ev.val = "Ok"
    /\ ObjOf(handles, ev.ptr) \in Unnamed(sys)
    /\ \E n \in Names : sys.names[n] # 0

\* C27: every Ok open gives a handle of the semaphore that the name names
\* after it; an Ok open of a name that names a semaphore is AccessOnly or a
\* non-exclusive Create, gives a handle of that very semaphore and changes
\* neither its count nor its mode nor anything else of the host (mode and
\* value of the Create are ignored); and a wait or try_wait through a handle,
\* called right after the Ok of a post through any handle of the same
\* semaphore, returns Ok.
C27_SameNameSameSemaphore ==
    [][ /\ ev'.op = "open" /\ ev'.val = "Ok" =>
             ObjOf(handles', ev'.ptr) = sys'.names[ev'.name]
        /\ ev'.op = "open" /\ ev'.val = "Ok" /\ sys.names[ev'.name] # 0 =>
             /\ ev'.flags \in {"AccessOnly", "Create"}
             /\ sys' = sys
        /\ ( /\ IsVia(ev, {"post"}) /\ ev.val = "Ok"
             /\ frame[1].pc = "idle"
             /\ IsVia(ev', {"wait", "try_wait"}) \/ frame'[1].pc = "wait"
             /\ ObjOf(handles, IF ev'.ptr # 0 THEN ev'.ptr ELSE frame'[1].ptr)
                   = ObjOf(handles, ev.ptr) ) =>
             /\ ev'.val = "Ok"
             /\ tally'.crossed = (ev'.ptr # ev.ptr) ]_vars

C27_Witness ==
    /\ tally.crossed /\ IsVia(ev, {"wait"}) /\ ev.val = "Ok"
    /\ \E h1 \in handles, h2 \in handles : h1.obj = h2.obj /\ h1.ptr # h2.ptr

\* C28 as claimed: two references compare equal exactly when they refer to the
\* same semaphore.
C28_EqualIffSameSemaphore ==
    ev.op = "eq" => (ev.val = "true" <=> ObjOf(handles, ev.ptr) = ObjOf(handles, ev.num))

\* C28: two references compare equal exactly when their sem_t * are the same;
\* so a reference equals itself, equal references refer to the same
\* semaphore, and references to distinct semaphores are unequal, while
\* references through two opens of one named semaphore may be unequal.
C28_EqualIffSamePointer ==
    ev.op = "eq" =>
       /\ ev.val = "true" <=> ev.ptr = ev.num
       /\ ev.val = "true" => ObjOf(handles, ev.ptr) = ObjOf(handles, ev.num)
       /\ ObjOf(handles, ev.ptr) # ObjOf(handles, ev.num) => ev.val = "false"

C28_Witness ==
    /\ ev.op = "eq" /\ ev.val = "false"
    /\ ObjOf(handles, ev.ptr) = ObjOf(handles, ev.num)

\* C29: when anonymous_with has returned Ok, the name it made its semaphore
\* with names nothing, the handle it returned is of a semaphore that exists
\* and has no name, and an AccessOnly open of that name right after the return
\* fails with ENOENT.
C29_AnonymousNameIsGone ==
    /\ [](ev.op = "anonymous_with" /\ ev.val = "Ok" =>
            /\ sys.names[ev.name] = 0
            /\ \E h \in handles : h.ptr = ev.ptr /\ h.obj \in Unnamed(sys))
    /\ [][ ev.op = "anonymous_with" /\ ev.val = "Ok"
             /\ ev'.op = "open" /\ ev'.name = ev.name =>
           ev'.val = "Err" /\ ev'.errno = "ENOENT" /\ tally'.probed ]_vars

C29_Witness ==
    /\ tally.probed /\ ev.op = "open" /\ ev.errno = "ENOENT"
    /\ \E h \in handles : h.obj \in Unnamed(sys)

\* a turn of the loop of anonymous_with by thread t that tries name n
Tried(t, n) == AnonTry(t) /\ (frame'[t].name = n \/ ev'.name = n)

\* anonymous_with is within its budget, and a further attempt is possible
\* with every name, whatever the names before
AnonBudget ==
    /\ frame[1].tries <= TRY_LIMIT
    /\ frame[1].pc = "anon" =>
          /\ frame[1].tries < TRY_LIMIT
          /\ \A n \in Names : ENABLED Tried(1, n)

\* an attempt: it opens and goes to the unlink, or fails, changes nothing and
\* is followed by a further attempt, or fails as attempt TRY_LIMIT and is the
\* return of Err
AnonAttemptStep ==
    /\ frame[1].pc = "anon" /\ frame'[1] # frame[1] =>
          \/ /\ frame'[1].pc = "unlink" /\ frame'[1].tries = frame[1].tries + 1
             /\ sys'.names[frame'[1].name] \in Unmade(sys)
             /\ ObjOf(handles', frame'[1].ptr) = sys'.names[frame'[1].name]
          \/ /\ frame'[1].pc = "anon" /\ frame'[1].tries = frame[1].tries + 1
             /\ sys' = sys /\ handles' = handles /\ ev' = NoEv
          \/ /\ frame'[1].pc = "idle" /\ frame[1].tries + 1 = TRY_LIMIT
             /\ sys' = sys /\ handles' = handles
             /\ ev'.op = "anonymous_with" /\ ev'.val = "Err"
    /\ ev'.op = "anonymous_with" /\ ev'.val = "Err" =>
          ev'.num = TRY_LIMIT /\ sys' = sys

\* after the attempt that opened, the next step of the call is its return,
\* with one of vals, and no further attempt
AnonReturnStep(vals) ==
    frame[1].pc = "unlink" /\ frame'[1] # frame[1] =>
       /\ frame'[1].pc = "idle"
       /\ ev'.op = "anonymous_with" /\ ev'.val \in vals
       /\ ev'.num = frame[1].tries

C31_NeverAnExistingSemaphore ==
    [][ /\ \A n \in Names :
             (Tried(1, n) /\ sys.names[n] # 0) =>
                 sys' = sys /\ handles' = handles /\ frame'[1].pc # "unlink"
        /\ (AnonTry(1) /\ frame'[1].pc = "unlink") =>
             /\ sys.names[frame'[1].name] = 0
             /\ ~sys.sems[ObjOf(handles', frame'[1].ptr)].live
             /\ \A h \in handles : h.ptr # frame'[1].ptr
             /\ \A i \in Sems : sys.sems[i].live => sys'.sems[i] = sys.sems[i]
             /\ \A n \in Names : sys.names[n] # 0 => sys'.names[n] = sys.names[n]
             /\ sys.names[InitUnique] # 0 => frame'[1].name # InitUnique
        /\ (ev'.op = "anonymous_with" /\ ev'.val = "Ok") =>
             /\ ev'.ptr = frame[1].ptr /\ handles' = handles
             /\ sys'.sems = sys.sems ]_vars

\* anonymous_with has returned Ok after a turn that failed, under another name
\* than the fallback name, which names a semaphore
C31_Witness ==
    /\ ev.op = "anonymous_with" /\ ev.val = "Ok" /\ ev.num >= 2
    /\ sys.names[InitUnique] # 0 /\ ev.name # InitUnique
    /\ ObjOf(handles, ev.ptr) # sys.names[InitUnique]

\* C32 as claimed: whatever names are opened by whom and when, no open gives a
\* handle of a semaphore that a turn of anonymous_with has created.
C32_NothingElseOpensIt ==
    [](ev.op = "open" /\ ev.val = "Ok" => ObjOf(handles, ev.ptr) \notin tally.anon)

\* C32, what holds: an open gives a handle of a semaphore that a turn of
\* anonymous_with has created only while that call is between its open and
\* its unlink, and with the name of that turn.
C32_OnlyBeforeTheUnlink ==
    [][ (ev'.op = "open" /\ ev'.val = "Ok" /\ ObjOf(handles', ev'.ptr) \in tally'.anon) =>
           \E t \in Threads : /\ frame[t].pc = "unlink" /\ frame[t].name = ev'.name
                               /\ ObjOf(handles, frame[t].ptr) = ObjOf(handles', ev'.ptr) ]_vars

\* another thread has opened the semaphore of an anonymous_with that has not
\* unlinked its name yet
C32_Witness ==
    /\ ev.op = "open" /\ ev.val = "Ok" /\ ev.t # 1
    /\ frame[1].pc = "unlink" /\ ObjOf(handles, ev.ptr) = ObjOf(handles, frame[1].ptr)

\* C33: init_with(true, ..) and try_init_with(true, ..) on an anonymous
\* container panic, whatever the gate holds, and the panic is the whole call:
\* it changes nothing of the gate, the slot, the OS semaphore and the other
\* calls; no call with is_shared = true gets to the gate; and after a panic on
\* an Uninitialized container a call init_with(false, ..) wins the gate.
C33_SharedAnonymousPanics ==
    /\ [](kind = "anonymous" =>
            /\ ~os.shared
            /\ \A t \in Threads : ~call[t].is_shared)
    /\ [](ev.val = "Panic" /\ state.val = UNINITIALIZED =>
            \A t \in Threads :
               ENABLED (/\ Begin(t, "init_with", FALSE, 0, 0) /\ UNCHANGED tally
                        /\ pc'[t] = "os_init" /\ state'.val = PREPARING))
    /\ [][ /\ ev'.val = "Panic" =>
               /\ kind = "anonymous"
               /\ UNCHANGED <<kind, alive, sets, state, mem, view, pc, call, held, os,
                              log, drop>>
           /\ (kind = "anonymous" /\ ev'.val # "Panic") =>
               \A t \in {u \in Threads : pc[u] = "idle" /\ (pc'[u] # "idle" \/ ev'.t = u)} :
                  \A op \in {"init_with", "try_init_with"},
                     sem_count \in Counts, limit \in Limits :
                        ~Begin(t, op, TRUE, sem_count, limit) ]_vars

\* init_with(true, ..) has panicked on a container that nothing has begun to
\* initialize
C33_Witness ==
    /\ kind = "anonymous" /\ ev.op = "init_with" /\ ev.val = "Panic"
    /\ state.val = UNINITIALIZED /\ log.wins = 0 /\ ~os.live

\* C34: while every close was made as the # Safety section of close demands,
\* no operation has been issued on a sem_t * that a close invalidated, and no
\* sem_t * in a value of the program is invalid; every blocked thread's
\* SemaphoreRef is of a value that exists (close consumed none that was
\* borrowed); and the values of a sem_t * are the opens of it less the closes.
C34_NoUseAfterClose ==
    /\ [](~tally.loose => ~tally.wild /\ tally.bad = {})
    /\ [](/\ \A p \in Ptrs : Blocked(p) > 0 => tally.insts[p] > 0
          /\ {h.ptr : h \in handles} = {p \in Ptrs : tally.insts[p] > 0})
    /\ [][ev'.op = "close" =>
            /\ tally'.insts[ev'.ptr] = tally.insts[ev'.ptr] - 1
            /\ tally.insts[ev'.ptr] = 1 => \A h \in handles' : h.ptr # ev'.ptr ]_vars

\* after closes made as the # Safety section demands, on a host where the
\* first close invalidates all, the program has two values of a sem_t * and
\* has posted through one
C34_Witness ==
    /\ ~tally.loose /\ tally.platform = "first"
    /\ ev.op = "post" /\ ev.val = "Ok" /\ tally.insts[ev.ptr] = 2

\* C35: open never returns the EINTR of a sem_open: what it returns, after
\* any calls of sem_open that signals interrupted, is what one call of
\* sem_open that no signal interrupts gives for the same name and the same
\* flags on the host as it was, success or another errno.
C35_OpenRetriesInterrupted ==
    /\ [](ev.op = "open" => ev.errno # "EINTR")
    /\ [][ev'.op = "open" =>
            \E flags \in FlagsRead(sys, ev'.name), host \in {"ok", "EMFILE"} :
               LET r == SemOpen(sys, ev'.name, flags, host)
               IN  /\ FlagsTag(flags) = ev'.flags
                   /\ sys' = r.sys
                   /\ ev'.errno = r.errno
                   /\ ev'.val = (IF r.errno = "none" THEN "Ok" ELSE "Err")
                   /\ r.errno = "none" => ObjOf(handles', ev'.ptr) = r.obj ]_vars

\* an open has returned Ok after a call of sem_open that a signal interrupted
C35_Witness == ev.op = "open" /\ ev.val = "Ok" /\ ev.num >= 1

\* C36: in an anonymous container the slot is written at most once, and holds
\* Some only after the one run of anonymous_with inside the gate succeeded;
\* when the gate is READY the slot holds Some, and no sem_ref fails its
\* expect; a teardown closes the handle once if the slot holds Some, and
\* closes nothing where the gate is UNINITIALIZED or the initialization failed.
C36_SlotSomeIffInitialized ==
    kind = "anonymous" =>
        /\ \A i \in 1..Len(mem) : mem[i] = 1 => i = 2 /\ Len(mem) = 2
        /\ mem[Len(mem)] = 1 =>
              /\ log.runs = 1 /\ log.wins = 1 /\ ~log.failed
              /\ state.val \in {PREPARING, READY}
              /\ alive => os.live
        /\ state.val = READY => mem[Len(mem)] = 1
        /\ log.failed => mem[Len(mem)] = 0 /\ state.val = PREPARING /\ ~os.live
        /\ ev.val # "PanicExpect"
        /\ ~alive => drop.destroys = (IF mem[Len(mem)] = 1 THEN 1 ELSE 0) /\ ~os.live
        /\ drop.done =>
              /\ drop.destroys = (IF drop.wasLive THEN 1 ELSE 0)
              /\ drop.gate # READY => drop.destroys = 0

\* an anonymous container that was initialized has been dropped: its slot held
\* Some, and the handle was closed
C36_Witness ==
    /\ kind = "anonymous" /\ ~alive /\ mem[Len(mem)] = 1
    /\ drop.gate = READY /\ drop.destroys = 1 /\ log.oks = 1

\* C37: a call init_with(is_shared, sem_count) on a container whose gate is
\* PREPARING or READY returns Err(true), whatever is_shared and sem_count are,
\* and changes nothing: not the gate, not the OS semaphore (its count, its
\* sharing), not the storage, not the other threads' calls and references.
C37_LosingInitWithChangesNothing ==
    [][ /\ (ev'.op = "init_with" /\ ev'.val = "ErrTrue") =>
             /\ state.val \in {PREPARING, READY}
             /\ UNCHANGED <<kind, alive, sets, state, mem, view, os, log, drop, held,
                            another, call>>
             /\ \A u \in Threads \ {ev'.t} : pc'[u] = pc[u]
        /\ \A t \in {u \in Threads : pc[u] = "idle" /\ (pc'[u] # "idle" \/ ev'.t = u)} :
              \A is_shared \in BOOLEAN, sem_count \in Counts :
                 (/\ state.val # UNINITIALIZED /\ AssertNotShared(kind, is_shared)
                  /\ Begin(t, "init_with", is_shared, sem_count, 0)) =>
                     /\ ev' = Ev(t, "init_with", "ErrTrue")
                     /\ state' = state /\ os' = os ]_vars

\* init_with has returned Err(true) on a container that is READY with a
\* shared semaphore whose count posts and a wait have changed
C37_Witness ==
    /\ ev.op = "init_with" /\ ev.val = "ErrTrue"
    /\ state.val = READY /\ os.live /\ os.shared /\ log.oks = 1
    /\ tally.posts = 2 /\ tally.waits = 1 /\ os.count >= 1

\* C38: a replacement in place leaves an Uninitialized container with no OS
\* object and no reference, and has destroyed the old OS object once where
\* the old gate was READY and not at all where it was UNINITIALIZED; on the
\* new container sem_ref answers Err until an initialization has succeeded,
\* every thread's init_with with any is_shared and sem_count wins the gate,
\* the OS object it makes has that sharing and that count, and the value
\* inspected is the sem_count of the call that won.
C38_ReplacedIsUninitialized ==
    /\ [](ev.op = "set" =>
            /\ state.val = UNINITIALIZED /\ ~os.live /\ log = NewLog
            /\ drop.done /\ drop.wasLive = (drop.gate = READY)
            /\ drop.gate = READY => drop.destroys = 1
            /\ drop.gate = UNINITIALIZED => drop.destroys = 0
            /\ \A t \in Threads : ~held[t] /\ pc[t] = "idle"
            /\ \A t \in Threads, is_shared \in BOOLEAN, sem_count \in Counts :
                  AssertNotShared(kind, is_shared) =>
                     ENABLED (/\ Begin(t, "init_with", is_shared, sem_count, 0)
                              /\ UNCHANGED tally
                              /\ pc'[t] = "os_init" /\ call'[t].sem_count = sem_count
                              /\ call'[t].is_shared = is_shared))
    /\ [](ev.op = "sem_ref" /\ state.val # READY => ev.val = "Err")
    /\ [](ev.op = "get_value" => ev.num = tally.start /\ os.count = tally.start)
    /\ [][\A t \in Threads :
             pc[t] = "os_init" /\ pc'[t] = "commit_ok" =>
                os' = [live |-> TRUE, count |-> call[t].sem_count,
                       shared |-> call[t].is_shared] ]_vars

\* a READY container was replaced in place, the new one was initialized with
\* the start count 2 as a shared semaphore, and the value inspected is 2
C38_Witness ==
    /\ kind = "unnamed" /\ sets = 1 /\ drop.gate = READY /\ drop.destroys = 1
    /\ ev.op = "get_value" /\ ev.num = 2 /\ os.shared

\* C39: every display() of a non-named container, of the anonymous form as
\* of the unnamed form, returns without a panic, and shows the count value
\* where the container is initialized and the placeholder "<Semaphore>"
\* where it is not.
C39_DisplayNeverAborts ==
    [](ev.op = "display" =>
          /\ ev.val \in {"value", "placeholder"}
          /\ ev.val = "value" <=> state.val = READY)

\* C39, what the code does: display() through the trait method, and the
\* unnamed form's own display(), show a value that sem_getvalue may answer iff
\* the gate is READY and the placeholder otherwise, without a panic; the
\* anonymous form's own display() panics at todo!() whatever the gate is,
\* and nothing else panics.
C39_DisplayThroughSemRef ==
    [](ev.op = "display" =>
          /\ (ev.val = "PanicTodo") <=> (kind = "anonymous" /\ ev.flags = "inherent")
          /\ ev.val \in {"value", "placeholder", "PanicTodo"}
          /\ ev.val = "value" => /\ state.val = READY /\ os.live
                                 /\ ev.num \in SemGetValue(os, Waiters)
          /\ ev.val = "placeholder" => state.val # READY)

\* an anonymous container whose count went from 1 to 2 is displayed through
\* the trait method and shows 2
C39_Witness ==
    /\ kind = "anonymous" /\ ev.op = "display" /\ ev.flags = "trait"
    /\ ev.val = "value" /\ ev.num = 2 /\ tally.posts = 1

====
